---- MODULE Spec2Model ----
(***************************************************************************)
(* Verification model of tvstreamer: the async TradingView connection      *)
(* (connection.py), the interval normalizer (intervals.py), the candle     *)
(* streaming engine (streamer.py) and the broadcast hub (hub.py).          *)
(*                                                                         *)
(* Strings the code inspects character by character (intervals, symbols)   *)
(* are sequences of one-character strings.                                 *)
(***************************************************************************)
EXTENDS Integers, Sequences, FiniteSets, TLC

(***************************************************************************)
(* Bounds of the model.                                                    *)
(***************************************************************************)
MaxCalls == 2
NumTasks == 2
NumSeriesIds == 2
MaxOpens == 2
MaxAttempt == 7
MaxRead == 1
NumSubs == 2
NumIterators == 1
MaxPublish == 3
MaxQueue == 2
NumHCalls == 4
NumCacheCalls == 2
MaxTicks == 1
TickSeconds == 60
MaxLimit == 2
MaxTs == 2
MaxFrames == 3
MaxPieces == 3
MaxChunks == 2
MaxPayloadLen == 2
MaxIntervalLen == 3
MaxInbound == 3
NumClientSeries == 2
NumConsumers == 3
NumCallbacks == 1
MaxRouterInbound == 2
MaxHistoryBars == 2

(***************************************************************************)
(* Character helpers: str.lower(), str.upper(), str.strip(), str.isdigit(),*)
(* int(), str() as Python computes them on the characters used here.       *)
(***************************************************************************)
Digits == <<"0", "1", "2", "3", "4", "5", "6", "7", "8", "9">>

LowerLetters == <<"a", "b", "d", "h", "m", "o", "w">>

UpperLetters == <<"A", "B", "D", "H", "M", "O", "W">>

IndexOf(c, s) == CHOOSE i \in 1..Len(s) : s[i] = c

InSeq(c, s) == \E i \in 1..Len(s) : s[i] = c

LowerChar(c) == IF InSeq(c, UpperLetters) THEN LowerLetters[IndexOf(c, UpperLetters)] ELSE c

UpperChar(c) == IF InSeq(c, LowerLetters) THEN UpperLetters[IndexOf(c, LowerLetters)] ELSE c

Lower(s) == [i \in 1..Len(s) |-> LowerChar(s[i])]

Upper(s) == [i \in 1..Len(s) |-> UpperChar(s[i])]

IsSpace(c) == c = " "

RECURSIVE LStrip(_)
LStrip(s) == IF Len(s) > 0 /\ IsSpace(Head(s)) THEN LStrip(Tail(s)) ELSE s

RECURSIVE RStrip(_)
RStrip(s) == IF Len(s) > 0 /\ IsSpace(s[Len(s)]) THEN RStrip(SubSeq(s, 1, Len(s) - 1)) ELSE s

Strip(s) == RStrip(LStrip(s))

IsDigit(s) == Len(s) > 0 /\ \A i \in 1..Len(s) : InSeq(s[i], Digits)

EndsWith(s, suffix) ==
    /\ Len(s) >= Len(suffix)
    /\ SubSeq(s, Len(s) - Len(suffix) + 1, Len(s)) = suffix

DropLast(s, n) == SubSeq(s, 1, Len(s) - n)

RECURSIVE StrToInt(_)
StrToInt(s) ==
    IF Len(s) = 0 THEN 0
    ELSE 10 * StrToInt(DropLast(s, 1)) + (IndexOf(s[Len(s)], Digits) - 1)

RECURSIVE IntToStr(_)
IntToStr(n) ==
    IF n < 10 THEN <<Digits[n + 1]>>
    ELSE Append(IntToStr(n \div 10), Digits[(n % 10) + 1])

(***************************************************************************)
(* intervals.py                                                            *)
(***************************************************************************)
ALLOWED_INTERVALS ==
    { <<"1">>, <<"3">>, <<"5">>, <<"1", "5">>, <<"3", "0">>, <<"6", "0">>,
      <<"1", "2", "0">>, <<"2", "4", "0">>, <<"D">>, <<"W">>, <<"M">> }

\* The outcome of validate() when it raises ValueError.
ValueError == <<"ValueError">>

ValidateClean(raw) ==
    LET cleaned == Lower(Strip(raw))
    IN  IF EndsWith(cleaned, <<"m">>) THEN DropLast(cleaned, 1)
        ELSE IF EndsWith(cleaned, <<"h">>) /\ IsDigit(DropLast(cleaned, 1))
             THEN IntToStr(StrToInt(DropLast(cleaned, 1)) * 60)
        ELSE IF EndsWith(cleaned, <<"d">>) /\ IsDigit(DropLast(cleaned, 1))
             THEN IntToStr(StrToInt(DropLast(cleaned, 1)) * 1440)
        ELSE IF EndsWith(cleaned, <<"w">>) /\ IsDigit(DropLast(cleaned, 1))
             THEN IntToStr(StrToInt(DropLast(cleaned, 1)) * 10080)
        ELSE IF EndsWith(cleaned, <<"m", "o">>) /\ IsDigit(DropLast(cleaned, 2))
             THEN <<"M">>
        ELSE cleaned

validate(raw) ==
    LET cleaned == ValidateClean(raw)
    IN  IF IsDigit(cleaned)
        THEN IF cleaned \in ALLOWED_INTERVALS THEN cleaned ELSE ValueError
        ELSE IF Upper(cleaned) \in ALLOWED_INTERVALS THEN Upper(cleaned) ELSE ValueError

(***************************************************************************)
(* State.                                                                  *)
(*   TradingViewConnection: sent is the wire of the connection's send      *)
(*   hook, wireOpen whether the transport still accepts frames; started,   *)
(*   tick_subs, quote_symbols, candle_subs, series_ids are the object's    *)
(*   fields; lockOwner / lockWaiters are the anyio.Lock _handshake_lock.   *)
(*   pc, arg: position and arguments of every task running a subscribe     *)
(*   call (task 0 is CandleStream._run, tasks 1..NumTasks are callers).    *)
(***************************************************************************)
VARIABLES sent, wireOpen, started, tick_subs, quote_symbols, candle_subs,
          series_ids, lockOwner, lockWaiters, pc, arg, ncalls

connVars == <<sent, wireOpen, started, tick_subs, quote_symbols, candle_subs,
              series_ids, lockOwner, lockWaiters, pc, arg, ncalls>>

(***************************************************************************)
(*   CandleStream: pairs is the configured list, attempt and delay the     *)
(*   locals of _run, runPc the position of _run, streamState the life      *)
(*   cycle seen by the owner (__aenter__ / __aexit__), pairIdx the pair    *)
(*   being subscribed, opens the transports opened so far, nread the       *)
(*   inbound frames read on the current transport, rawRead the last of     *)
(*   them, sleepMs the jittered                                            *)
(*   sleep, closedFrom where _run stood when __aexit__ cancelled it,       *)
(*   itersAtClose the iterators subscribe() had returned when __aexit__    *)
(*   closed the hub.                                                       *)
(*   Hub: hubMaxsize and hubSubs are _maxsize and _subs; chan is the       *)
(*   memory object stream of each subscriber, cons the position of its     *)
(*   consumer, received what the consumer got, published every item        *)
(*   handed to publish(), subAt how many items had been published when  *)
(*   the subscriber registered, firstDrop the first item publish() logged  *)
(*   as dropped for the subscriber (0: none yet).                          *)
(***************************************************************************)
VARIABLES pairs, runPc, streamState, attempt, delay, sleepMs, pairIdx, opens,
          nread, rawRead, closedFrom, itersAtClose

VARIABLES hubMaxsize, hubSubs, chan, cons, received, published, subAt, firstDrop

engineVars == <<pairs, runPc, streamState, attempt, delay, sleepMs, pairIdx, opens,
                nread, rawRead, closedFrom, itersAtClose>>

hubVars == <<hubMaxsize, hubSubs, chan, cons, received, published, subAt, firstDrop>>

(***************************************************************************)
(*   Historic fetcher: semValue is _websocket_semaphore._value, cache the  *)
(*   dict _cache in insertion order, clock the reading of                  *)
(*   time.monotonic().  For every get_historic_candles call: hpc its       *)
(*   position, harg its arguments, hnow the `now` of _cached_fetch, hws    *)
(*   its transport, hsent the frames it sent, candles / seen_ts /          *)
(*   completed the locals of _fetch_history, hread the number of inbound   *)
(*   frames it has read, hmarker whether a series_completed was among      *)
(*   them, hend how it ended, hret the list it returned, hretAt the clock  *)
(*   at its end, cancel_called whether its move_on_after scope fired.      *)
(***************************************************************************)
VARIABLES semValue, cache, clock, hpc, harg, hnow, hws, hsent, candles,
          seen_ts, completed, hread, hmarker, hret, hend, hretAt, cancel_called

histVars == <<semValue, cache, clock, hpc, harg, hnow, hws, hsent, candles,
              seen_ts, completed, hread, hmarker, hret, hend, hretAt, cancel_called>>

(***************************************************************************)
(*   Framing codec and interval normalizer applied to drawn inputs:        *)
(*   inbound is the text the transport delivers, chunks the pieces of it   *)
(*   delivered so far, in order,                                           *)
(*   remainder the reader's buffer                                         *)
(*   after the last chunk, frames the payloads sliced out so far,          *)
(*   payload_in the text that was encoded into inbound (NoPayload: none)   *)
(*   and encoder the _prepend_header that encoded it; interval_raw is an   *)
(*   argument of                                                           *)
(*   validate(), normalized its result and renormalized the result of      *)
(*   validate() on that result (Unset: not computed yet).  frame_in and    *)
(*   interval_in are the arguments of Candle.from_frame and candle is what *)
(*   it returned (Unset: not called yet).                                  *)
(***************************************************************************)
VARIABLES inbound, chunks, remainder, frames, payload_in, encoder,
          interval_raw, normalized, renormalized

VARIABLES frame_in, interval_in, candle

candleVars == <<frame_in, interval_in, candle>>

fnVars == <<inbound, chunks, remainder, frames, payload_in, encoder,
            interval_raw, normalized, renormalized, candleVars>>

(***************************************************************************)
(*   TvWSClient: subscriptions is self._subs, ws the socket self._ws       *)
(*   ("none", "open", "closed"), transportUp whether the transport behind  *)
(*   it still delivers, stop_flag self._stop_flag, rx the reader thread    *)
(*   ("none", "running", and how it ended: "stopped", "recv failed",       *)
(*   "raised"), buffer its local buffer, client_q the queue self._q,       *)
(*   series the registry self._series, wsSent the frames handed to         *)
(*   self._ws.send(), delivered the texts recv() has returned, sc the      *)
(*   position of a user iterating stream() and streamed what it was given. *)
(*   StreamRouter: router is the position of the owner of the context      *)
(*   ("new", "entered", "joining": blocked in __exit__, "exited"),         *)
(*   dispatch the dispatcher thread ("none", "running", "sentinels",       *)
(*   "done"), sentIdx its position in the sentinel loop, consumers the     *)
(*   list self._consumers, cq the queue of every consumer, iter the        *)
(*   position of its iterator, yielded what the iterator has yielded,      *)
(*   callbacks the list self._callbacks, called the events each callback   *)
(*   was invoked with, disposed the callbacks whose dispose has returned,  *)
(*   event_cur the event the dispatcher is handing to callbacks and        *)
(*   cb_copy the rest of its copy of the callback list, dropped the        *)
(*   consumers for which it has logged "Dropping event: consumer queue is  *)
(*   full".                                                                *)
(***************************************************************************)
VARIABLES subscriptions, ws, transportUp, stop_flag, rx, buffer, client_q, series,
          wsSent, delivered, sc, streamed

VARIABLES router, dispatch, sentIdx, consumers, cq, iter, yielded, callbacks, called,
          disposed, cb_copy, event_cur, dropped

\* get_history: gh is the position of the call ("none", "fetching",
\* "returned", "timeout"), old_q the queue it put aside, hsid the series id it
\* drew, hn its n_bars, hbars the bars collected and hdone its `completed`.
VARIABLES gh, old_q, hsid, hn, hbars, hdone

fetchVars == <<gh, old_q, hsid, hn, hbars, hdone>>

clientVars == <<subscriptions, ws, transportUp, stop_flag, rx, buffer, client_q, series,
                wsSent, delivered, sc, streamed, router, dispatch, sentIdx, consumers,
                cq, iter, yielded, callbacks, called, disposed, cb_copy, event_cur, dropped,
                fetchVars>>

tailVars == <<clientVars, fnVars>>

vars == <<connVars, engineVars, hubVars, histVars, tailVars>>

Tasks == 1..NumTasks

AllTasks == 0..NumTasks

\* Inputs of the subscribe calls.
Symbols == { <<"a">>, <<"A">>, <<"B">> }

Intervals == { <<"1">>, <<"5", "m">>, <<"2">> }

\* series_id = f"s{secrets.randbelow(9000) + 1000}": "s" followed by a number.
SeriesIdBase == 1000

SeriesIds == SeriesIdBase..(SeriesIdBase + NumSeriesIds - 1)

NoArg == [kind |-> "none", symbol |-> <<>>, interval |-> <<>>, res |-> <<>>, sid |-> 0, call |-> 0]

HandshakeMethods ==
    <<"set_auth_token", "chart_create_session", "quote_create_session", "quote_set_fields">>

SubscribeMethods == {"quote_add_symbols", "resolve_symbol", "create_series"}

\* _send(method, params): the frame put on the wire.  sym / sid / res are the
\* parameters that vary (alias = sym_sid); call names the subscribe call that
\* sent the frame.
Frame(m, sym, sid, res, call) == [m |-> m, sym |-> sym, sid |-> sid, res |-> res, call |-> call]

HandshakeFrame(k, call) == Frame(HandshakeMethods[k], <<>>, 0, <<>>, call)

ConnInit ==
    /\ sent = <<>>
    /\ wireOpen = TRUE
    /\ started = FALSE
    /\ tick_subs = {}
    /\ quote_symbols = {}
    /\ candle_subs = {}
    /\ series_ids = <<>>
    /\ lockOwner = -1
    /\ lockWaiters = <<>>
    /\ pc = [t \in AllTasks |-> "idle"]
    /\ arg = [t \in AllTasks |-> NoArg]
    /\ ncalls = 0

(***************************************************************************)
(* anyio.Lock as used by `async with self._handshake_lock`: acquire takes  *)
(* a free lock at once and otherwise queues the task; release hands the    *)
(* lock to the first waiter.                                               *)
(***************************************************************************)
\* A gate that does not wait: a caller that finds the lock taken goes on.
LockAcquireNoWait(t, p) ==
    /\ lockOwner' = t
    /\ lockWaiters' = lockWaiters
    /\ pc' = [p EXCEPT ![t] = "hs_enter"]

LockAcquire(t, p) ==
    IF lockOwner = -1
    THEN /\ lockOwner' = t
         /\ lockWaiters' = lockWaiters
         /\ pc' = [p EXCEPT ![t] = "hs_enter"]
    ELSE /\ lockOwner' = lockOwner
         /\ lockWaiters' = Append(lockWaiters, t)
         /\ pc' = [p EXCEPT ![t] = "wait"]

\* The pc function p after the lock is released: the first waiter owns the
\* lock and resumes inside _ensure_started.
LockWake(p) ==
    IF lockWaiters = <<>> THEN p ELSE [p EXCEPT ![Head(lockWaiters)] = "hs_enter"]

LockRelease ==
    /\ lockOwner' = (IF lockWaiters = <<>> THEN -1 ELSE Head(lockWaiters))
    /\ lockWaiters' = (IF lockWaiters = <<>> THEN <<>> ELSE Tail(lockWaiters))

\* The arguments a task keeps: those of a call that ended (its send raised
\* because the transport is broken) are dropped.
ArgAfterSend(t, a) == IF wireOpen THEN a ELSE [a EXCEPT ![t] = NoArg]

\* await self._send(...) outside the lock: the frame goes on the wire and the
\* task continues at `next`, or the hook raises and the call ends.
Send(t, p, frame, next) ==
    IF wireOpen
    THEN sent' = Append(sent, frame) /\ pc' = [p EXCEPT ![t] = next]
    ELSE sent' = sent /\ pc' = [p EXCEPT ![t] = "raised"]

(***************************************************************************)
(* subscribe_ticks / subscribe_candles after _ensure_started has returned, *)
(* up to the next await.                                                   *)
(***************************************************************************)
SubscribeTicksBody(t, p) ==
    LET sym == Upper(arg[t].symbol)
    IN  /\ tick_subs' = tick_subs \cup {sym}
        /\ IF sym \notin quote_symbols
           THEN /\ Send(t, p, Frame("quote_add_symbols", sym, 0, <<>>, arg[t].call), "t_qas")
                /\ arg' = ArgAfterSend(t, arg)
           ELSE /\ sent' = sent
                /\ pc' = [p EXCEPT ![t] = "ret"]
                /\ arg' = [arg EXCEPT ![t] = NoArg]

\* subscribe_candles that skips resolve_symbol for a symbol already announced.
SubscribeCandlesBodyNoResolve(t, p) ==
    LET res == validate(arg[t].interval)
        sym == Upper(arg[t].symbol)
    IN  /\ tick_subs' = tick_subs
        /\ IF res = ValueError
           THEN /\ arg' = [arg EXCEPT ![t] = NoArg]
                /\ sent' = sent
                /\ pc' = [p EXCEPT ![t] = "raised"]
           ELSE \E sid \in SeriesIds :
                /\ arg' = ArgAfterSend(t, [arg EXCEPT ![t].res = res, ![t].sid = sid])
                /\ IF sym \notin quote_symbols
                   THEN Send(t, p, Frame("quote_add_symbols", sym, 0, <<>>, arg[t].call), "c_qas")
                   ELSE Send(t, p, Frame("create_series", sym, sid, res, arg[t].call), "c_cs")

SubscribeCandlesBody(t, p) ==
    LET res == validate(arg[t].interval)
        sym == Upper(arg[t].symbol)
    IN  /\ tick_subs' = tick_subs
        /\ IF res = ValueError
           THEN /\ arg' = [arg EXCEPT ![t] = NoArg]
                /\ sent' = sent
                /\ pc' = [p EXCEPT ![t] = "raised"]
           ELSE \E sid \in SeriesIds :
                /\ arg' = ArgAfterSend(t, [arg EXCEPT ![t].res = res, ![t].sid = sid])
                /\ IF sym \notin quote_symbols
                   THEN Send(t, p, Frame("quote_add_symbols", sym, 0, <<>>, arg[t].call), "c_qas")
                   ELSE Send(t, p, Frame("resolve_symbol", sym, sid, <<>>, arg[t].call), "c_res")

SubscribeBody(t, p) ==
    IF arg[t].kind = "ticks" THEN SubscribeTicksBody(t, p) ELSE SubscribeCandlesBody(t, p)

(***************************************************************************)
(* _ensure_started                                                         *)
(***************************************************************************)
\* A caller starts subscribe_ticks(symbol) / subscribe_candles(symbol, interval):
\* the call enters _ensure_started and acquires the handshake lock.
CallSubscribeTicks(t) ==
    /\ UNCHANGED <<engineVars, hubVars, histVars, tailVars>>
    /\ pc[t] \in {"idle", "ret", "raised"}
    /\ ncalls < MaxCalls
    /\ \E s \in Symbols :
         arg' = [arg EXCEPT ![t] = [NoArg EXCEPT !.kind = "ticks", !.symbol = s, !.call = ncalls + 1]]
    /\ ncalls' = ncalls + 1
    /\ LockAcquire(t, pc)
    /\ UNCHANGED <<sent, wireOpen, started, tick_subs, quote_symbols, candle_subs, series_ids>>

CallSubscribeCandles(t) ==
    /\ UNCHANGED <<engineVars, hubVars, histVars, tailVars>>
    /\ pc[t] \in {"idle", "ret", "raised"}
    /\ ncalls < MaxCalls
    /\ \E s \in Symbols, i \in Intervals :
         arg' = [arg EXCEPT ![t] = [NoArg EXCEPT !.kind = "candles", !.symbol = s,
                                                 !.interval = i, !.call = ncalls + 1]]
    /\ ncalls' = ncalls + 1
    /\ LockAcquire(t, pc)
    /\ UNCHANGED <<sent, wireOpen, started, tick_subs, quote_symbols, candle_subs, series_ids>>

\* A gate that marks the connection started and lets go of the lock before the
\* handshake frames are out.
EnsureStartedEnterFlagFirst(t) ==
    /\ UNCHANGED <<engineVars, hubVars, histVars, tailVars>>
    /\ pc[t] = "hs_enter"
    /\ IF started
       THEN /\ LockRelease
            /\ SubscribeBody(t, LockWake(pc))
            /\ started' = started
       ELSE /\ IF wireOpen
               THEN /\ sent' = Append(sent, HandshakeFrame(1, arg[t].call))
                    /\ pc' = LockWake([pc EXCEPT ![t] = "hs1"])
                    /\ started' = TRUE
               ELSE /\ sent' = sent
                    /\ pc' = LockWake([pc EXCEPT ![t] = "raised"])
                    /\ started' = started
            /\ LockRelease
            /\ arg' = ArgAfterSend(t, arg)
            /\ tick_subs' = tick_subs
    /\ UNCHANGED <<wireOpen, quote_symbols, candle_subs, series_ids, ncalls>>

\* Inside the lock: `if self._started: return`, else the first handshake send.
EnsureStartedEnter(t) ==
    /\ UNCHANGED <<engineVars, hubVars, histVars, tailVars>>
    /\ pc[t] = "hs_enter"
    /\ IF started
       THEN /\ LockRelease
            /\ SubscribeBody(t, LockWake(pc))
       ELSE /\ IF wireOpen
               THEN /\ sent' = Append(sent, HandshakeFrame(1, arg[t].call))
                    /\ pc' = [pc EXCEPT ![t] = "hs1"]
                    /\ UNCHANGED <<lockOwner, lockWaiters>>
               ELSE /\ sent' = sent
                    /\ pc' = LockWake([pc EXCEPT ![t] = "raised"])
                    /\ LockRelease
            /\ arg' = ArgAfterSend(t, arg)
            /\ tick_subs' = tick_subs
    /\ UNCHANGED <<wireOpen, started, quote_symbols, candle_subs, series_ids, ncalls>>

HsPc == <<"hs1", "hs2", "hs3", "hs4">>

\* The second to fourth handshake sends, each resumed after the previous await.
EnsureStartedSend(t) ==
    /\ UNCHANGED <<engineVars, hubVars, histVars, tailVars>>
    /\ \E k \in 1..3 :
         /\ pc[t] = HsPc[k]
         /\ IF wireOpen
            THEN /\ sent' = Append(sent, HandshakeFrame(k + 1, arg[t].call))
                 /\ pc' = [pc EXCEPT ![t] = HsPc[k + 1]]
                 /\ UNCHANGED <<lockOwner, lockWaiters>>
            ELSE /\ sent' = sent
                 /\ pc' = LockWake([pc EXCEPT ![t] = "raised"])
                 /\ LockRelease
    /\ arg' = ArgAfterSend(t, arg)
    /\ UNCHANGED <<wireOpen, started, tick_subs, quote_symbols, candle_subs, series_ids, ncalls>>

\* After the last handshake send: self._started = True, the lock is released
\* and the subscribe call goes on to its first send.
EnsureStartedDone(t) ==
    /\ UNCHANGED <<engineVars, hubVars, histVars, tailVars>>
    /\ pc[t] = "hs4"
    /\ started' = TRUE
    /\ LockRelease
    /\ SubscribeBody(t, LockWake(pc))
    /\ UNCHANGED <<wireOpen, quote_symbols, candle_subs, series_ids, ncalls>>

(***************************************************************************)
(* subscribe_ticks / subscribe_candles after each await of _send.          *)
(***************************************************************************)
TicksAfterQuoteAdd(t) ==
    /\ UNCHANGED <<engineVars, hubVars, histVars, tailVars>>
    /\ pc[t] = "t_qas"
    /\ quote_symbols' = quote_symbols \cup {Upper(arg[t].symbol)}
    /\ pc' = [pc EXCEPT ![t] = "ret"]
    /\ arg' = [arg EXCEPT ![t] = NoArg]
    /\ UNCHANGED <<sent, wireOpen, started, tick_subs, candle_subs, series_ids,
                   lockOwner, lockWaiters, ncalls>>

CandlesAfterQuoteAdd(t) ==
    /\ UNCHANGED <<engineVars, hubVars, histVars, tailVars>>
    /\ pc[t] = "c_qas"
    /\ quote_symbols' = quote_symbols \cup {Upper(arg[t].symbol)}
    /\ Send(t, pc, Frame("resolve_symbol", Upper(arg[t].symbol), arg[t].sid, <<>>, arg[t].call), "c_res")
    /\ arg' = ArgAfterSend(t, arg)
    /\ UNCHANGED <<wireOpen, started, tick_subs, candle_subs, series_ids,
                   lockOwner, lockWaiters, ncalls>>

CandlesAfterResolve(t) ==
    /\ UNCHANGED <<engineVars, hubVars, histVars, tailVars>>
    /\ pc[t] = "c_res"
    /\ Send(t, pc, Frame("create_series", Upper(arg[t].symbol), arg[t].sid, arg[t].res, arg[t].call), "c_cs")
    /\ arg' = ArgAfterSend(t, arg)
    /\ UNCHANGED <<wireOpen, started, tick_subs, quote_symbols, candle_subs, series_ids,
                   lockOwner, lockWaiters, ncalls>>

CandlesAfterCreate(t) ==
    /\ UNCHANGED <<engineVars, hubVars, histVars, tailVars>>
    /\ pc[t] = "c_cs"
    /\ candle_subs' = candle_subs \cup {<<Upper(arg[t].symbol), arg[t].res>>}
    /\ series_ids' = Append(series_ids, <<Upper(arg[t].symbol), arg[t].res, arg[t].sid>>)
    /\ pc' = [pc EXCEPT ![t] = "ret"]
    /\ arg' = [arg EXCEPT ![t] = NoArg]
    /\ UNCHANGED <<sent, wireOpen, started, tick_subs, quote_symbols,
                   lockOwner, lockWaiters, ncalls>>

\* The transport behind the send hook breaks: every later send raises.
TransportBreaks ==
    /\ wireOpen
    /\ wireOpen' = FALSE
    /\ UNCHANGED <<sent, started, tick_subs, quote_symbols, candle_subs, series_ids,
                   lockOwner, lockWaiters, pc, arg, ncalls>>

(***************************************************************************)
(* hub.py: _Hub over anyio memory object streams.                          *)
(***************************************************************************)
Subs == 1..NumSubs

\* The iterators handed out by one CandleStream.
Iterators == 1..NumIterators

\* anyio.create_memory_object_stream(maxsize): the buffer and the two ends.
NewChan == [queue |-> <<>>, sendOpen |-> TRUE, recvOpen |-> TRUE]

NoChan == [queue |-> <<>>, sendOpen |-> FALSE, recvOpen |-> FALSE]

\* _Hub.__init__ with the default maxsize and nobody subscribed.
HubIdle ==
    /\ hubMaxsize = 0
    /\ hubSubs = {}
    /\ chan = [s \in Subs |-> NoChan]
    /\ cons = [s \in Subs |-> "none"]
    /\ received = [s \in Subs |-> <<>>]
    /\ published = <<>>
    /\ subAt = [s \in Subs |-> 0]
    /\ firstDrop = [s \in Subs |-> 0]

\* send.send_nowait(item) for subscriber s: a closed send end and a closed
\* receive end raise, a receiver suspended in receive() takes the item
\* directly, otherwise the item is buffered while the buffer holds fewer than
\* maxsize items, else WouldBlock.
SendNowait(s) ==
    IF ~chan[s].sendOpen THEN "ClosedResourceError"
    ELSE IF ~chan[s].recvOpen THEN "BrokenResourceError"
    ELSE IF cons[s] = "waiting" THEN "handoff"
    ELSE IF Len(chan[s].queue) < hubMaxsize THEN "buffered"
    ELSE "WouldBlock"

SendRaises(s) == SendNowait(s) \in {"ClosedResourceError", "BrokenResourceError"}

\* publish() that gives up at the first subscriber whose backlog is full: the
\* subscribers after it (in the order of their ids) are not served.
HubPublishStopAtFull(item) ==
    LET blocked == { s \in hubSubs : SendNowait(s) = "WouldBlock" }
        served == { s \in hubSubs : \A b \in blocked : s < b }
    IN  /\ chan' = [s \in Subs |->
                      IF s \in served /\ SendNowait(s) = "buffered"
                      THEN [chan[s] EXCEPT !.queue = Append(@, item)]
                      ELSE IF s \in served /\ SendRaises(s)
                      THEN [chan[s] EXCEPT !.sendOpen = FALSE]
                      ELSE chan[s]]
        /\ received' = [s \in Subs |->
                          IF s \in served /\ SendNowait(s) = "handoff"
                          THEN Append(received[s], item) ELSE received[s]]
        /\ cons' = [s \in Subs |->
                      IF s \in served /\ SendNowait(s) = "handoff" THEN "idle" ELSE cons[s]]
        /\ hubSubs' = hubSubs \ { s \in served : SendRaises(s) }
        /\ published' = Append(published, item)
        /\ firstDrop' = [s \in Subs |->
                           IF s \in served /\ SendNowait(s) = "WouldBlock" /\ firstDrop[s] = 0
                           THEN item ELSE firstDrop[s]]
        /\ UNCHANGED <<hubMaxsize, subAt>>

\* publish() whose buffered items go to the head of the subscriber's backlog.
HubPublishPrepend(item) ==
    /\ chan' = [s \in Subs |->
                  IF s \in hubSubs /\ SendNowait(s) = "buffered"
                  THEN [chan[s] EXCEPT !.queue = <<item>> \o @]
                  ELSE IF s \in hubSubs /\ SendRaises(s)
                  THEN [chan[s] EXCEPT !.sendOpen = FALSE]
                  ELSE chan[s]]
    /\ received' = [s \in Subs |->
                      IF s \in hubSubs /\ SendNowait(s) = "handoff"
                      THEN Append(received[s], item) ELSE received[s]]
    /\ cons' = [s \in Subs |->
                  IF s \in hubSubs /\ SendNowait(s) = "handoff" THEN "idle" ELSE cons[s]]
    /\ hubSubs' = hubSubs \ { s \in hubSubs : SendRaises(s) }
    /\ published' = Append(published, item)
    /\ firstDrop' = [s \in Subs |->
                       IF s \in hubSubs /\ SendNowait(s) = "WouldBlock" /\ firstDrop[s] = 0
                       THEN item ELSE firstDrop[s]]
    /\ UNCHANGED <<hubMaxsize, subAt>>

\* publish(item): every subscriber of the snapshot list(self._subs) is served
\* with send_nowait; WouldBlock drops the item for that subscriber, any other
\* exception discards the subscriber and closes its send end.
HubPublish(item) ==
    /\ chan' = [s \in Subs |->
                  IF s \in hubSubs /\ SendNowait(s) = "buffered"
                  THEN [chan[s] EXCEPT !.queue = Append(@, item)]
                  ELSE IF s \in hubSubs /\ SendRaises(s)
                  THEN [chan[s] EXCEPT !.sendOpen = FALSE]
                  ELSE chan[s]]
    /\ received' = [s \in Subs |->
                      IF s \in hubSubs /\ SendNowait(s) = "handoff"
                      THEN Append(received[s], item) ELSE received[s]]
    /\ cons' = [s \in Subs |->
                  IF s \in hubSubs /\ SendNowait(s) = "handoff" THEN "idle" ELSE cons[s]]
    /\ hubSubs' = hubSubs \ { s \in hubSubs : SendRaises(s) }
    /\ published' = Append(published, item)
    /\ firstDrop' = [s \in Subs |->
                       IF s \in hubSubs /\ SendNowait(s) = "WouldBlock" /\ firstDrop[s] = 0
                       THEN item ELSE firstDrop[s]]
    /\ UNCHANGED <<hubMaxsize, subAt>>

\* aclose(): every send end is closed and _subs cleared.  A consumer
\* suspended in recv.receive() is woken with anyio.EndOfStream, which the
\* iterator of CandleStream.subscribe() does not catch: its finally closes the
\* receive end and the exception reaches the consumer.
HubAclose ==
    /\ chan' = [s \in Subs |->
                  IF s \in hubSubs
                  THEN [chan[s] EXCEPT !.sendOpen = FALSE,
                                       !.recvOpen = IF cons[s] = "waiting" THEN FALSE ELSE @]
                  ELSE chan[s]]
    /\ cons' = [s \in Subs |->
                  IF s \in hubSubs /\ cons[s] = "waiting" THEN "raised" ELSE cons[s]]
    /\ hubSubs' = {}
    /\ UNCHANGED <<hubMaxsize, received, published, subAt, firstDrop>>

\* CandleStream.subscribe(): recv = self._hub.subscribe() and the iterator
\* around it, not yet started.  Subscribers are numbered in the order they
\* register.
StreamSubscribe(s) ==
    /\ UNCHANGED <<connVars, engineVars, histVars, tailVars>>
    /\ cons[s] = "none"
    /\ IF s = 1 THEN TRUE ELSE cons[s - 1] # "none"
    /\ chan' = [chan EXCEPT ![s] = NewChan]
    /\ hubSubs' = hubSubs \cup {s}
    /\ cons' = [cons EXCEPT ![s] = "new"]
    /\ subAt' = [subAt EXCEPT ![s] = Len(published)]
    /\ UNCHANGED <<hubMaxsize, received, published, firstDrop>>

\* The consumer asks the iterator for the next candle (`yield await
\* recv.receive()`): a buffered item is returned, an empty stream whose send
\* end is closed raises EndOfStream through the iterator, otherwise the
\* consumer is suspended.
ConsumerNext(s) ==
    /\ UNCHANGED <<connVars, engineVars, histVars, tailVars>>
    /\ cons[s] \in {"new", "idle"}
    /\ IF chan[s].queue # <<>>
       THEN /\ received' = [received EXCEPT ![s] = Append(@, Head(chan[s].queue))]
            /\ chan' = [chan EXCEPT ![s].queue = Tail(@)]
            /\ cons' = [cons EXCEPT ![s] = "idle"]
       ELSE IF ~chan[s].sendOpen
       THEN /\ received' = received
            /\ chan' = [chan EXCEPT ![s].recvOpen = FALSE]
            /\ cons' = [cons EXCEPT ![s] = "raised"]
       ELSE /\ received' = received
            /\ chan' = chan
            /\ cons' = [cons EXCEPT ![s] = "waiting"]
    /\ UNCHANGED <<hubMaxsize, hubSubs, published, subAt, firstDrop>>

\* The consumer closes the iterator (aclose()): a started iterator runs its
\* finally and closes the receive end, one never started runs nothing.
ConsumerClose(s) ==
    /\ UNCHANGED <<connVars, engineVars, histVars, tailVars>>
    /\ cons[s] \in {"new", "idle"}
    /\ chan' = [chan EXCEPT ![s].recvOpen = IF cons[s] = "idle" THEN FALSE ELSE @]
    /\ cons' = [cons EXCEPT ![s] = "closed"]
    /\ UNCHANGED <<hubMaxsize, hubSubs, received, published, subAt, firstDrop>>

(***************************************************************************)
(* streamer.py: CandleStream                                               *)
(***************************************************************************)
\* reconnect_delay, the default of CandleStream.__init__, in seconds.
reconnect_delay == 1

\* settings.RECONNECT_MAX_DELAY, in seconds.
RECONNECT_MAX_DELAY == 60

Min(a, b) == IF a < b THEN a ELSE b

\* delay = min(self._delay * (2**attempt), RECONNECT_MAX_DELAY), with attempt
\* already incremented for the failure.
BackoffDelay(a) == Min(reconnect_delay * 2^a, RECONNECT_MAX_DELAY)

\* delay *= 0.8 + random.random() * 0.4, as a factor in thousandths.
JitterPermille == {800, 1000, 1199}

Pair(sym, interval) == [symbol |-> sym, interval |-> interval]

\* The lists of (symbol, interval) a CandleStream is constructed with.
PairChoices ==
    { <<>>,
      <<Pair(<<"A">>, <<"1">>)>>,
      <<Pair(<<"a">>, <<"1">>), Pair(<<"A">>, <<"5", "m">>)>>,
      <<Pair(<<"A">>, <<"1">>), Pair(<<"B">>, <<"1">>)>>,
      <<Pair(<<"A">>, <<"2">>)>> }

\* __init__ validates every interval: a list with an unsupported one raises
\* ValueError and constructs no stream.
ConstructiblePairs ==
    { p \in PairChoices : \A i \in 1..Len(p) : validate(p[i].interval) # ValueError }

\* self._interval_map.get(sym): the resolution of the last pair of that symbol.
IntervalMapHas(sym) == \E i \in 1..Len(pairs) : Upper(pairs[i].symbol) = sym

IntervalMapGet(sym) ==
    LET last == CHOOSE i \in 1..Len(pairs) :
                    /\ Upper(pairs[i].symbol) = sym
                    /\ \A j \in (i + 1)..Len(pairs) : Upper(pairs[j].symbol) # sym
    IN  validate(pairs[last].interval)

\* Inbound text frames: a du update (with or without bar_close_time) and any
\* other frame.
RawFrames ==
    { [m |-> "du", ts |-> 1600000000, bct |-> FALSE],
      [m |-> "du", ts |-> 1600000000, bct |-> TRUE],
      [m |-> "qsd", ts |-> 0, bct |-> FALSE] }

NoFrame == [none |-> TRUE]

\* No inbound frame read yet on the current transport.
NoRaw == [m |-> "none", ts |-> 0, bct |-> FALSE]

\* decode_candle_frame(raw): None unless the frame matches the du pattern,
\* else a dict with the keys ts, o, h, l, c, v and, when present,
\* bar_close_time.
decode_candle_frame(raw) ==
    IF raw.m # "du" THEN NoFrame
    ELSE IF raw.bct
         THEN [ts |-> raw.ts, o |-> 1, h |-> 2, l |-> 0, c |-> 1, v |-> 100,
               bar_close_time |-> raw.ts + 60]
         ELSE [ts |-> raw.ts, o |-> 1, h |-> 2, l |-> 0, c |-> 1, v |-> 100]

\* No CandleStream.
EngineIdle ==
    /\ pairs = <<>>
    /\ runPc = "init"
    /\ streamState = "none"
    /\ attempt = 0
    /\ delay = 0
    /\ sleepMs = 0
    /\ pairIdx = 0
    /\ opens = 0
    /\ nread = 0
    /\ rawRead = NoRaw
    /\ closedFrom = "none"
    /\ itersAtClose = {}

\* CandleStream.__init__
StreamInit ==
    /\ pairs \in ConstructiblePairs
    /\ runPc = "init"
    /\ streamState = "new"
    /\ attempt = 0
    /\ delay = 0
    /\ sleepMs = 0
    /\ pairIdx = 0
    /\ opens = 0
    /\ nread = 0
    /\ rawRead = NoRaw
    /\ closedFrom = "none"
    /\ itersAtClose = {}

\* No connection object and no transport yet.
NoConnection ==
    /\ sent = <<>>
    /\ wireOpen = FALSE
    /\ started = FALSE
    /\ tick_subs = {}
    /\ quote_symbols = {}
    /\ candle_subs = {}
    /\ series_ids = <<>>
    /\ lockOwner = -1
    /\ lockWaiters = <<>>
    /\ pc = [t \in AllTasks |-> "idle"]
    /\ arg = [t \in AllTasks |-> NoArg]
    /\ ncalls = 0

CandlesCall(i) ==
    [NoArg EXCEPT !.kind = "candles", !.symbol = pairs[i].symbol,
                  !.interval = pairs[i].interval, !.call = i]

\* __aenter__: the task group is entered and _run started.
StreamEnter ==
    /\ UNCHANGED <<histVars, tailVars>>
    /\ streamState = "new"
    /\ streamState' = "open"
    /\ runPc' = "connect"
    /\ UNCHANGED <<pairs, attempt, delay, sleepMs, pairIdx, opens, nread, rawRead, closedFrom, itersAtClose>>
    /\ UNCHANGED <<connVars, hubVars>>

\* The except Exception branch of _run: attempt += 1, the delay is computed
\* and jittered, and _run sleeps.
RunFail ==
    /\ attempt < MaxAttempt
    /\ attempt' = attempt + 1
    /\ delay' = BackoffDelay(attempt + 1)
    /\ \E j \in JitterPermille : sleepMs' = BackoffDelay(attempt + 1) * j
    /\ runPc' = "backoff"

\* TradingViewConnection(sender=ws.send) that keeps the fields of the
\* connection object of the previous transport.
FreshConnectionReused ==
    /\ sent' = <<>>
    /\ wireOpen' = TRUE
    /\ UNCHANGED <<started, tick_subs, quote_symbols, candle_subs, series_ids>>

\* conn = TradingViewConnection(sender=ws.send) on the transport just opened.
FreshConnection ==
    /\ sent' = <<>>
    /\ wireOpen' = TRUE
    /\ started' = FALSE
    /\ tick_subs' = {}
    /\ quote_symbols' = {}
    /\ candle_subs' = {}
    /\ series_ids' = <<>>

\* `async with self._connect() as ws` opens the transport; a fresh connection
\* object is made and the first subscribe_candles call runs up to its first
\* await (inside _ensure_started).
RunConnectOk ==
    /\ UNCHANGED <<histVars, tailVars>>
    /\ runPc = "connect"
    /\ streamState = "open"
    /\ opens < MaxOpens
    /\ opens' = opens + 1
    /\ nread' = 0
    /\ rawRead' = NoRaw
    /\ FreshConnection
    /\ IF pairs = <<>>
       THEN /\ attempt' = 0
            /\ runPc' = "stream"
            /\ pairIdx' = 0
            /\ UNCHANGED <<pc, arg, lockOwner, lockWaiters>>
       ELSE /\ attempt' = attempt
            /\ runPc' = "sub"
            /\ pairIdx' = 1
            /\ arg' = [arg EXCEPT ![0] = CandlesCall(1)]
            /\ LockAcquire(0, pc)
    /\ UNCHANGED <<pairs, streamState, delay, sleepMs, closedFrom, itersAtClose, ncalls>>
    /\ UNCHANGED hubVars

\* self._connect() raises: the transport does not open.
RunConnectFail ==
    /\ UNCHANGED <<histVars, tailVars>>
    /\ runPc = "connect"
    /\ streamState = "open"
    /\ RunFail
    /\ UNCHANGED <<pairs, streamState, pairIdx, opens, nread, rawRead, closedFrom, itersAtClose>>
    /\ UNCHANGED <<connVars, hubVars>>

\* A subscribe_candles call of the for loop has returned: the next pair is
\* subscribed, or after the last one attempt = 0 and _run waits for the first
\* inbound frame.
RunNextPair ==
    /\ UNCHANGED <<histVars, tailVars>>
    /\ runPc = "sub"
    /\ streamState = "open"
    /\ pc[0] = "ret"
    /\ IF pairIdx < Len(pairs)
       THEN /\ pairIdx' = pairIdx + 1
            /\ arg' = [arg EXCEPT ![0] = CandlesCall(pairIdx + 1)]
            /\ LockAcquire(0, pc)
            /\ UNCHANGED <<attempt, runPc>>
       ELSE /\ attempt' = 0
            /\ runPc' = "stream"
            /\ pc' = [pc EXCEPT ![0] = "idle"]
            /\ UNCHANGED <<pairIdx, arg, lockOwner, lockWaiters>>
    /\ UNCHANGED <<pairs, streamState, delay, sleepMs, opens, nread, rawRead, closedFrom, itersAtClose>>
    /\ UNCHANGED <<sent, wireOpen, started, tick_subs, quote_symbols, candle_subs,
                   series_ids, ncalls>>
    /\ UNCHANGED hubVars

\* A send of the subscribe sequence raised: the exception leaves the async
\* with (closing the transport) and reaches the except Exception branch.
RunSubscribeFailed ==
    /\ UNCHANGED <<histVars, tailVars>>
    /\ runPc = "sub"
    /\ streamState = "open"
    /\ pc[0] = "raised"
    /\ RunFail
    /\ wireOpen' = FALSE
    /\ pc' = [pc EXCEPT ![0] = "idle"]
    /\ UNCHANGED <<pairs, streamState, pairIdx, opens, nread, rawRead, closedFrom, itersAtClose>>
    /\ UNCHANGED <<sent, started, tick_subs, quote_symbols, candle_subs, series_ids,
                   lockOwner, lockWaiters, arg, ncalls>>
    /\ UNCHANGED hubVars

\* The body of `async for raw in ws` for one inbound frame.  A frame that does
\* not decode is skipped.  A decoded frame has no key "sym", so frame["sym"]
\* raises KeyError, which ends the connection through the except Exception
\* branch; the lines after it publish a Candle for a configured symbol.
RunReadFrame ==
    /\ UNCHANGED <<histVars, tailVars>>
    /\ runPc = "stream"
    /\ streamState = "open"
    /\ wireOpen
    /\ nread < MaxRead
    /\ nread' = nread + 1
    /\ \E raw \in RawFrames :
         LET frame == decode_candle_frame(raw)
         IN  /\ rawRead' = raw
             /\ IF frame = NoFrame
                THEN UNCHANGED <<attempt, delay, sleepMs, runPc, wireOpen, hubVars>>
                ELSE IF "sym" \notin DOMAIN frame
                THEN RunFail /\ wireOpen' = FALSE /\ UNCHANGED hubVars
                ELSE IF ~IntervalMapHas(Upper(frame.sym))
                THEN UNCHANGED <<attempt, delay, sleepMs, runPc, wireOpen, hubVars>>
                ELSE /\ HubPublish([n |-> Upper(frame.sym), ts |-> frame.ts,
                                    interval |-> IntervalMapGet(Upper(frame.sym))])
                     /\ UNCHANGED <<attempt, delay, sleepMs, runPc, wireOpen>>
    /\ UNCHANGED <<pairs, streamState, pairIdx, opens, closedFrom, itersAtClose>>
    /\ UNCHANGED <<sent, started, tick_subs, quote_symbols, candle_subs, series_ids,
                   lockOwner, lockWaiters, pc, arg, ncalls>>

\* Reading from a broken transport raises: except Exception branch.
RunReadError ==
    /\ UNCHANGED <<histVars, tailVars>>
    /\ runPc = "stream"
    /\ streamState = "open"
    /\ ~wireOpen
    /\ RunFail
    /\ UNCHANGED <<pairs, streamState, pairIdx, opens, nread, rawRead, closedFrom, itersAtClose>>
    /\ UNCHANGED <<connVars, hubVars>>

\* The server ends the inbound stream: `async for` finishes, the async with
\* closes the transport and `while True` goes straight to the next connect.
RunStreamEnd ==
    /\ UNCHANGED <<histVars, tailVars>>
    /\ runPc = "stream"
    /\ streamState = "open"
    /\ wireOpen
    /\ wireOpen' = FALSE
    /\ runPc' = "connect"
    /\ UNCHANGED <<pairs, streamState, attempt, delay, sleepMs, pairIdx, opens, nread, rawRead, closedFrom, itersAtClose>>
    /\ UNCHANGED <<sent, started, tick_subs, quote_symbols, candle_subs, series_ids,
                   lockOwner, lockWaiters, pc, arg, ncalls>>
    /\ UNCHANGED hubVars

\* anyio.sleep(delay) returns: the loop connects again.
RunBackoffElapsed ==
    /\ UNCHANGED <<histVars, tailVars>>
    /\ runPc = "backoff"
    /\ streamState = "open"
    /\ runPc' = "connect"
    /\ UNCHANGED <<pairs, streamState, attempt, delay, sleepMs, pairIdx, opens, nread, rawRead, closedFrom, itersAtClose>>
    /\ UNCHANGED <<connVars, hubVars>>

\* The transport of the current connection breaks.
StreamTransportBreaks ==
    /\ runPc \in {"sub", "stream"}
    /\ TransportBreaks
    /\ UNCHANGED <<engineVars, hubVars, histVars, tailVars>>

\* _run is suspended in the subscribe_candles call of the current pair.
RunSubscribing == runPc = "sub" /\ streamState = "open"

\* One step of the subscribe_candles call _run is awaiting.
RunSubscribeStep ==
    \/ RunSubscribing /\ EnsureStartedEnter(0)
    \/ RunSubscribing /\ EnsureStartedSend(0)
    \/ RunSubscribing /\ EnsureStartedDone(0)
    \/ RunSubscribing /\ CandlesAfterQuoteAdd(0)
    \/ RunSubscribing /\ CandlesAfterResolve(0)
    \/ RunSubscribing /\ CandlesAfterCreate(0)

\* __aexit__: self._tg.cancel_scope.cancel()
StreamExit ==
    /\ UNCHANGED <<histVars, tailVars>>
    /\ streamState = "open"
    /\ streamState' = "closing"
    /\ closedFrom' = runPc
    /\ UNCHANGED <<pairs, runPc, attempt, delay, sleepMs, pairIdx, opens, nread, rawRead, itersAtClose>>
    /\ UNCHANGED <<connVars, hubVars>>

\* The cancellation reaches _run at the await it is suspended in: the async
\* with (if entered) closes the transport and _run ends.
RunCancelled ==
    /\ UNCHANGED <<histVars, tailVars>>
    /\ streamState = "closing"
    /\ runPc # "done"
    /\ runPc' = "done"
    /\ wireOpen' = FALSE
    /\ pc' = [pc EXCEPT ![0] = "idle"]
    /\ arg' = [arg EXCEPT ![0] = NoArg]
    /\ lockOwner' = -1
    /\ lockWaiters' = <<>>
    /\ UNCHANGED <<pairs, streamState, attempt, delay, sleepMs, pairIdx, opens, nread, rawRead, closedFrom, itersAtClose>>
    /\ UNCHANGED <<sent, started, tick_subs, quote_symbols, candle_subs, series_ids, ncalls>>
    /\ UNCHANGED hubVars

\* __aexit__ that closes the hub and returns without waiting for _run.
StreamExitDoneNoWait ==
    /\ UNCHANGED <<histVars, tailVars>>
    /\ streamState = "closing"
    /\ streamState' = "closed"
    /\ HubAclose
    /\ itersAtClose' = { s \in Subs : cons[s] # "none" }
    /\ UNCHANGED <<pairs, runPc, attempt, delay, sleepMs, pairIdx, opens, nread, rawRead, closedFrom>>
    /\ UNCHANGED connVars

\* __aexit__ after the task group has exited: await self._hub.aclose()
StreamExitDone ==
    /\ UNCHANGED <<histVars, tailVars>>
    /\ streamState = "closing"
    /\ runPc = "done"
    /\ streamState' = "closed"
    /\ HubAclose
    /\ itersAtClose' = { s \in Subs : cons[s] # "none" }
    /\ UNCHANGED <<pairs, runPc, attempt, delay, sleepMs, pairIdx, opens, nread, rawRead, closedFrom>>
    /\ UNCHANGED connVars

(***************************************************************************)
(* historic.py: get_historic_candles                                       *)
(***************************************************************************)
HCalls == 1..NumHCalls

\* _websocket_semaphore = asyncio.Semaphore(3)
SemaphorePermits == 3

\* _CACHE_TTL, in seconds.
CACHE_TTL == 60

\* _CACHE_MAXSIZE
CACHE_MAXSIZE == 128

\* The first reading of time.monotonic() and the last one considered.
FirstClock == TickSeconds

LastClock == TickSeconds * (MaxTicks + 1)

HistArg(sym, interval, limit) == [symbol |-> sym, interval |-> interval, limit |-> limit]

NoHistArg == HistArg(<<>>, <<>>, 0)

\* The arguments of concurrent callers: an interval validate() accepts and
\* one it rejects.
HistoricArgs == { HistArg(<<"a">>, <<"1">>, 1), HistArg(<<"a">>, <<"9", "9">>, 1) }

\* The callers and arguments of repeated calls: two spellings of one key and
\* another limit.
CacheCalls == 1..NumCacheCalls

CacheArgs ==
    { HistArg(<<"a">>, <<"1">>, 1), HistArg(<<"A">>, <<"1", "m">>, 1),
      HistArg(<<"A">>, <<"1">>, 2) }

\* The arguments of a single fetch: every limit of 0..MaxLimit.
FetchArgs == { HistArg(<<"a">>, <<"1">>, n) : n \in 0..MaxLimit }

\* key = (symbol.upper(), interval, limit), interval being validate()'s result.
CacheKey(a) == <<Upper(a.symbol), validate(a.interval), a.limit>>

\* A list object: its items and the call whose _fetch_history built it.
ListObj(c, items) == [obj |-> c, items |-> items]

NoList == [obj |-> 0, items |-> <<>>]

CacheHas(q, key) == \E i \in 1..Len(q) : q[i].key = key

\* _cache.get(key)
CacheGet(q, key) == q[CHOOSE i \in 1..Len(q) : q[i].key = key]

\* _cache[key] = (now, data): a key already present keeps its place in the
\* dict, a new one goes last.
CacheSet(q, key, now, data) ==
    LET entry == [key |-> key, ts |-> now, data |-> data]
    IN  IF CacheHas(q, key)
        THEN [i \in 1..Len(q) |-> IF q[i].key = key THEN entry ELSE q[i]]
        ELSE Append(q, entry)

\* The first entry, in dict order, of the largest timestamp.
Newest(q) ==
    CHOOSE i \in 1..Len(q) :
        /\ \A j \in 1..Len(q) : q[j].ts <= q[i].ts
        /\ \A j \in 1..(i - 1) : q[j].ts < q[i].ts

\* min(_cache.items(), key=lambda kv: kv[1][0])[0]: the first entry, in dict
\* order, of the smallest timestamp.
Oldest(q) ==
    CHOOSE i \in 1..Len(q) :
        /\ \A j \in 1..Len(q) : q[i].ts <= q[j].ts
        /\ \A j \in 1..(i - 1) : q[j].ts > q[i].ts

RemoveAt(q, i) == SubSeq(q, 1, i - 1) \o SubSeq(q, i + 1, Len(q))

\* The second `async with _cache_lock` block of _cached_fetch.
CachePut(q, key, now, data) ==
    LET q1 == CacheSet(q, key, now, data)
    IN  IF Len(q1) > CACHE_MAXSIZE THEN RemoveAt(q1, Oldest(q1)) ELSE q1

\* A cache left by CACHE_MAXSIZE - 1 earlier calls for other keys, the third
\* of which had started before the others and finished after two of them.
FilledCache ==
    [i \in 1..(CACHE_MAXSIZE - 1) |->
        [key |-> <<<<"F">>, <<"1">>, 1000 + i>>,
         ts |-> IF i = 3 THEN 0 ELSE FirstClock,
         data |-> NoList]]

\* No get_historic_candles call yet.
HistCallsIdle ==
    /\ semValue = SemaphorePermits
    /\ clock = FirstClock
    /\ hpc = [c \in HCalls |-> "idle"]
    /\ harg = [c \in HCalls |-> NoHistArg]
    /\ hnow = [c \in HCalls |-> 0]
    /\ hws = [c \in HCalls |-> "none"]
    /\ hsent = [c \in HCalls |-> <<>>]
    /\ candles = [c \in HCalls |-> <<>>]
    /\ seen_ts = [c \in HCalls |-> {}]
    /\ completed = [c \in HCalls |-> FALSE]
    /\ hread = [c \in HCalls |-> 0]
    /\ hmarker = [c \in HCalls |-> FALSE]
    /\ hret = [c \in HCalls |-> NoList]
    /\ hend = [c \in HCalls |-> "none"]
    /\ hretAt = [c \in HCalls |-> 0]
    /\ cancel_called = [c \in HCalls |-> FALSE]

\* The module as imported: the semaphore free, the cache empty.
HistIdle ==
    /\ HistCallsIdle
    /\ cache = <<>>

\* The module after earlier calls: the cache one short of full.
HistInit ==
    /\ HistCallsIdle
    /\ cache = FilledCache

\* A semaphore that never reports itself locked.
SemLockedNever(v) == FALSE

\* sem.locked()
SemLocked(v) == v = 0

\* A release that gives nothing back.
SemReleaseNone(v) == v

\* sem.release()
SemRelease(v) == v + 1

\* What a call leaves behind when it ends: the way it ended, what it returned
\* and when.
HistEnd(c, how, data) ==
    /\ hpc' = [hpc EXCEPT ![c] = IF how \in {"ValueError", "TooManyRequestsError"}
                                  THEN "raised" ELSE "returned"]
    /\ hend' = [hend EXCEPT ![c] = how]
    /\ hret' = [hret EXCEPT ![c] = data]
    /\ hretAt' = [hretAt EXCEPT ![c] = clock]

\* The end of a call that went through _fetch_history: the list is stored
\* under the call's key with the `now` read before the fetch, the cache
\* trimmed, the permit released (finally) and the list returned.
HistFinish(c, how, items) ==
    /\ cache' = CachePut(cache, CacheKey(harg[c]), hnow[c], ListObj(c, items))
    /\ semValue' = SemRelease(semValue)
    /\ HistEnd(c, how, ListObj(c, items))

\* A frame on the wire of a fetch session; history is the sixth parameter of
\* create_series, -1 on every other frame.
HFrame(m, history) == [m |-> m, history |-> history]

\* The four requests of _fetch_history, in the order they are sent.
HistRequests(a) ==
    << HFrame("set_auth_token", -1), HFrame("chart_create_session", -1),
       HFrame("resolve_symbol", -1), HFrame("create_series", a.limit) >>

\* One ~m~<len>~m~ part of an inbound text frame.
Msg(m, bars, bct) == [m |-> m, bars |-> bars, bct |-> bct]

Heartbeat == Msg("~h~", <<>>, FALSE)

SeriesCompleted == Msg("series_completed", <<>>, FALSE)

Du(ts, bct) == Msg("du", <<ts>>, bct)

TimescaleUpdate(bars) == Msg("timescale_update", bars, FALSE)

\* The bar lists of a timescale_update: none, one bar, the same bar twice,
\* all bars oldest first.
BarLists ==
    {<<>>, [i \in 1..MaxTs |-> i]}
        \cup { <<t>> : t \in 1..MaxTs } \cup { <<t, t>> : t \in 1..MaxTs }

\* The inbound frames of a single fetch.
FetchFrames ==
    { <<Heartbeat>>, <<SeriesCompleted>> }
        \cup { <<Du(t, b)>> : t \in 1..MaxTs, b \in BOOLEAN }
        \cup { <<TimescaleUpdate(bars)>> : bars \in BarLists }
        \cup { <<TimescaleUpdate(<<1>>), SeriesCompleted>>,
               <<Du(MaxTs, TRUE), TimescaleUpdate(<<1>>)>> }

\* The inbound frame of concurrent fetches: a snapshot of all bars.
HistoricFrames == { <<TimescaleUpdate([i \in 1..MaxTs |-> i])>> }

\* decode_candle_frame(raw) on a frame of several parts: the pattern matches
\* the first du update that carries a bar.
DecodeRaw(raw) ==
    IF \E i \in 1..Len(raw) : raw[i].m = "du" /\ raw[i].bars # <<>>
    THEN LET i == CHOOSE k \in 1..Len(raw) :
                      /\ raw[k].m = "du" /\ raw[k].bars # <<>>
                      /\ \A j \in 1..(k - 1) : ~(raw[j].m = "du" /\ raw[j].bars # <<>>)
         IN  decode_candle_frame([m |-> "du", ts |-> raw[i].bars[1], bct |-> raw[i].bct])
    ELSE NoFrame

\* The candle Candle.from_frame builds: its tsOpen and the message it came in.
HCandle(ts, m) == [ts |-> ts, m |-> m]

\* The locals of the read loop.
Acc(cand, seen, done) == [candles |-> cand, seen_ts |-> seen, completed |-> done]

\* `for f in frames`: every bar whose ts is not in seen_ts is appended.
RECURSIVE AddBars(_, _)
AddBars(bars, acc) ==
    IF bars = <<>> THEN acc
    ELSE IF Head(bars) \in acc.seen_ts THEN AddBars(Tail(bars), acc)
    ELSE AddBars(Tail(bars),
                 Acc(Append(acc.candles, HCandle(Head(bars), "timescale_update")),
                     acc.seen_ts \cup {Head(bars)}, FALSE))

\* `for part in _split_re.split(raw)`: only a timescale_update is looked at;
\* after its bars, len(candles) >= limit sets completed and leaves the loop.
RECURSIVE ScanParts(_, _, _)
ScanParts(parts, acc, limit) ==
    IF parts = <<>> THEN acc
    ELSE IF Head(parts).m # "timescale_update" THEN ScanParts(Tail(parts), acc, limit)
    ELSE LET acc1 == AddBars(Head(parts).bars, acc)
         IN  IF Len(acc1.candles) >= limit
             THEN Acc(acc1.candles, acc1.seen_ts, TRUE)
             ELSE ScanParts(Tail(parts), acc1, limit)

\* The body of `async for raw in ws` after the heartbeat echo: the du fast
\* path, then the scan of the parts.
ProcessRaw(raw, acc, limit) ==
    LET frame == DecodeRaw(raw)
        acc1 == IF /\ frame # NoFrame
                   /\ "bar_close_time" \in DOMAIN frame
                   /\ frame.ts \notin acc.seen_ts
                THEN Acc(Append(acc.candles, HCandle(frame.ts, "du")),
                         acc.seen_ts \cup {frame.ts}, FALSE)
                ELSE acc
    IN  ScanParts(raw, acc1, limit)

\* The heartbeat echoes of one frame.
Pongs(raw) == SelectSeq([i \in 1..Len(raw) |-> HFrame(raw[i].m, -1)],
                        LAMBDA f : f.m = "~h~")

\* candles[-limit:] for limit >= 0: the last limit items, and the whole list
\* for limit = 0 (the slice [-0:] is [0:]).
LastN(q, n) ==
    IF n = 0 \/ n >= Len(q) THEN q ELSE SubSeq(q, Len(q) - n + 1, Len(q))

\* What stays as it is in every step of the fetcher.
HistOthers == <<connVars, engineVars, hubVars, tailVars>>

\* get_historic_candles up to its first suspension: validate, the permit
\* (locked() / acquire()), the first `async with _cache_lock` block of
\* _cached_fetch and, on a miss, _fetch_history up to the connect.  Callers
\* are numbered in the order they call.
HistCall(c, a) ==
    /\ hpc[c] = "idle"
    /\ IF c = 1 THEN TRUE ELSE hpc[c - 1] # "idle"
    /\ harg' = [harg EXCEPT ![c] = a]
    /\ IF validate(a.interval) = ValueError
       THEN /\ HistEnd(c, "ValueError", NoList)
            /\ UNCHANGED <<semValue, hnow>>
       ELSE IF SemLocked(semValue)
       THEN /\ HistEnd(c, "TooManyRequestsError", NoList)
            /\ UNCHANGED <<semValue, hnow>>
       ELSE /\ hnow' = [hnow EXCEPT ![c] = clock]
            /\ IF /\ CacheHas(cache, CacheKey(a))
                  /\ clock - CacheGet(cache, CacheKey(a)).ts < CACHE_TTL
               THEN /\ HistEnd(c, "hit", CacheGet(cache, CacheKey(a)).data)
                    /\ semValue' = SemRelease(semValue - 1)
               ELSE /\ hpc' = [hpc EXCEPT ![c] = "connecting"]
                    /\ semValue' = semValue - 1
                    /\ UNCHANGED <<hend, hret, hretAt>>
    /\ UNCHANGED <<cache, clock, hws, hsent, candles, seen_ts, completed, hread, hmarker,
                   cancel_called>>
    /\ UNCHANGED HistOthers

\* `async with connect_ctx as ws`: the transport opens.
HistConnectOk(c) ==
    /\ hpc[c] = "connecting"
    /\ hpc' = [hpc EXCEPT ![c] = "sending"]
    /\ hws' = [hws EXCEPT ![c] = "open"]
    /\ UNCHANGED <<semValue, cache, clock, harg, hnow, hsent, candles, seen_ts, completed,
                   hread, hmarker, hret, hend, hretAt, cancel_called>>
    /\ UNCHANGED HistOthers

\* The connect raises: `except Exception` returns [].
HistConnectFail(c) ==
    /\ hpc[c] = "connecting"
    /\ HistFinish(c, "error", <<>>)
    /\ UNCHANGED <<clock, harg, hnow, hws, hsent, candles, seen_ts, completed, hread,
                   hmarker, cancel_called>>
    /\ UNCHANGED HistOthers

\* The four requests are sent and the read loop entered.
HistSendRequests(c) ==
    /\ hpc[c] = "sending"
    /\ hsent' = [hsent EXCEPT ![c] = HistRequests(harg[c])]
    /\ hpc' = [hpc EXCEPT ![c] = "reading"]
    /\ UNCHANGED <<semValue, cache, clock, harg, hnow, hws, candles, seen_ts, completed,
                   hread, hmarker, hret, hend, hretAt, cancel_called>>
    /\ UNCHANGED HistOthers

\* One of the four sends raises after k requests went out.
HistSendFail(c) ==
    /\ hpc[c] = "sending"
    /\ \E k \in 0..3 : hsent' = [hsent EXCEPT ![c] = SubSeq(HistRequests(harg[c]), 1, k)]
    /\ hpc' = [hpc EXCEPT ![c] = "closing"]
    /\ hend' = [hend EXCEPT ![c] = "error"]
    /\ UNCHANGED <<semValue, cache, clock, harg, hnow, hws, candles, seen_ts, completed,
                   hread, hmarker, hret, hretAt, cancel_called>>
    /\ UNCHANGED HistOthers

\* One turn of `async for raw in ws`.
HistReadFrame(c, raw) ==
    /\ hpc[c] = "reading"
    /\ hread[c] < MaxFrames
    /\ hread' = [hread EXCEPT ![c] = @ + 1]
    /\ hmarker' = [hmarker EXCEPT ![c] = @ \/ \E i \in 1..Len(raw) : raw[i] = SeriesCompleted]
    /\ hsent' = [hsent EXCEPT ![c] = @ \o Pongs(raw)]
    /\ LET r == ProcessRaw(raw, Acc(candles[c], seen_ts[c], FALSE), harg[c].limit)
       IN  /\ candles' = [candles EXCEPT ![c] = r.candles]
           /\ seen_ts' = [seen_ts EXCEPT ![c] = r.seen_ts]
           /\ completed' = [completed EXCEPT ![c] = r.completed]
           /\ hpc' = [hpc EXCEPT ![c] = IF r.completed THEN "closing" ELSE "reading"]
           /\ hend' = [hend EXCEPT ![c] = IF r.completed THEN "completed" ELSE @]
    /\ UNCHANGED <<semValue, cache, clock, harg, hnow, hws, hret, hretAt, cancel_called>>
    /\ UNCHANGED HistOthers

\* The read loop is left without completed: how says why.
HistLeaveLoop(c, how) ==
    /\ hpc[c] = "reading"
    /\ hpc' = [hpc EXCEPT ![c] = "closing"]
    /\ hend' = [hend EXCEPT ![c] = how]
    /\ cancel_called' = [cancel_called EXCEPT ![c] = (how = "timeout")]
    /\ UNCHANGED <<semValue, cache, clock, harg, hnow, hws, hsent, candles, seen_ts,
                   completed, hread, hmarker, hret, hretAt>>
    /\ UNCHANGED HistOthers

\* The peer closes the stream: `async for` ends.
HistStreamEnd(c) == HistLeaveLoop(c, "eof")

\* The read raises: `except Exception`.
HistReadError(c) == HistLeaveLoop(c, "error")

\* anyio.move_on_after(timeout) fires while the loop waits for a frame.
HistDeadline(c) == HistLeaveLoop(c, "timeout")

\* The list a fetch whose deadline fired returns if the cancellation is
\* taken for a failure: [].
FetchResultEmptyOnTimeout(c) ==
    IF hend[c] \in {"error", "timeout"} THEN <<>> ELSE LastN(candles[c], harg[c].limit)

\* What _fetch_history returns: [] after an exception, candles[-limit:]
\* otherwise.
FetchResult(c) ==
    IF hend[c] = "error" THEN <<>> ELSE LastN(candles[c], harg[c].limit)

\* The exit of `async with connect_ctx` closes the transport; then the
\* result through HistFinish.
HistClosed(c) ==
    /\ hpc[c] = "closing"
    /\ hws' = [hws EXCEPT ![c] = IF @ = "open" THEN "closed" ELSE @]
    /\ HistFinish(c, hend[c], FetchResult(c))
    /\ UNCHANGED <<clock, harg, hnow, hsent, candles, seen_ts, completed, hread, hmarker,
                   cancel_called>>
    /\ UNCHANGED HistOthers

\* time.monotonic() moves on.
HistTick ==
    /\ clock < LastClock
    /\ clock' = clock + TickSeconds
    /\ UNCHANGED <<semValue, cache, hpc, harg, hnow, hws, hsent, candles, seen_ts,
                   completed, hread, hmarker, hret, hend, hretAt, cancel_called>>
    /\ UNCHANGED HistOthers

\* Concurrent callers of get_historic_candles at one reading of the clock.
HistoricNext ==
    \/ \E c \in HCalls : \E a \in HistoricArgs : HistCall(c, a)
    \/ \E c \in HCalls : HistConnectOk(c)
    \/ \E c \in HCalls : HistConnectFail(c)
    \/ \E c \in HCalls : HistSendRequests(c)
    \/ \E c \in HCalls : \E raw \in HistoricFrames : HistReadFrame(c, raw)
    \/ \E c \in HCalls : HistDeadline(c)
    \/ \E c \in HCalls : HistClosed(c)

\* Repeated calls while the clock moves on.
CacheNext ==
    \/ \E c \in CacheCalls : \E a \in CacheArgs : HistCall(c, a)
    \/ \E c \in CacheCalls : HistConnectOk(c)
    \/ \E c \in CacheCalls : HistConnectFail(c)
    \/ \E c \in CacheCalls : HistSendRequests(c)
    \/ \E c \in CacheCalls : \E raw \in HistoricFrames : HistReadFrame(c, raw)
    \/ \E c \in CacheCalls : HistClosed(c)
    \/ HistTick

\* One caller and every kind of inbound frame.
FetchNext ==
    \/ \E a \in FetchArgs : HistCall(1, a)
    \/ HistConnectOk(1)
    \/ HistConnectFail(1)
    \/ HistSendRequests(1)
    \/ HistSendFail(1)
    \/ \E raw \in FetchFrames : HistReadFrame(1, raw)
    \/ HistStreamEnd(1)
    \/ HistReadError(1)
    \/ HistDeadline(1)
    \/ HistClosed(1)

(***************************************************************************)
(* Framing codec: _prepend_header of both clients and the frame splitter   *)
(* of TvWSClient._reader_loop.  A text is a sequence of characters; the    *)
(* character "é" takes two bytes in UTF-8, every other one a single byte.  *)
(***************************************************************************)
Marker == <<"~", "m", "~">>

\* len(c.encode()) of one character.
Utf8CharLen(c) == IF c = "é" THEN 2 ELSE 1

\* len(payload_in.encode())
RECURSIVE Utf8Len(_)
Utf8Len(s) == IF Len(s) = 0 THEN 0 ELSE Utf8CharLen(Head(s)) + Utf8Len(Tail(s))

\* TradingViewConnection._prepend_header: the header carries the byte length.
TradingViewConnection_prepend_header(p) == Marker \o IntToStr(Utf8Len(p)) \o Marker \o p

\* TvWSClient._prepend_header: the header carries len(payload_in), the number
\* of characters.
TvWSClient_prepend_header(p) == Marker \o IntToStr(Len(p)) \o Marker \o p

\* s[i:].startswith(t), with i counted from 1.
StartsWithAt(s, i, t) ==
    /\ i + Len(t) - 1 <= Len(s)
    /\ SubSeq(s, i, i + Len(t) - 1) = t

\* The length of the run of digits of s that starts at position i.
RECURSIVE DigitRun(_, _)
DigitRun(s, i) ==
    IF i <= Len(s) /\ InSeq(s[i], Digits) THEN 1 + DigitRun(s, i + 1) ELSE 0

\* re.match(r"~m~(\d+)~m~", buffer) is not None
HeaderMatch(buf) ==
    /\ StartsWithAt(buf, 1, Marker)
    /\ DigitRun(buf, 4) > 0
    /\ StartsWithAt(buf, 4 + DigitRun(buf, 4), Marker)

SplitResult(out, rest) == [frames |-> out, remainder |-> rest]

\* A splitter that throws away a buffer it cannot slice a payload_in from.
RECURSIVE SplitFromNoCarry(_, _)
SplitFromNoCarry(buf, out) ==
    IF ~HeaderMatch(buf) THEN SplitResult(out, <<>>)
    ELSE LET nd == DigitRun(buf, 4)
             frame_len == StrToInt(SubSeq(buf, 4, 3 + nd))
             header_len == nd + 6
             total_len == header_len + frame_len
         IN  IF Len(buf) < total_len THEN SplitResult(out, <<>>)
             ELSE SplitFromNoCarry(SubSeq(buf, total_len + 1, Len(buf)),
                                   Append(out, SubSeq(buf, header_len + 1, total_len)))

\* The inner `while True` of _reader_loop on the buffer, after the payloads
\* `got`: it slices payloads off the front while a header matches and the
\* buffer holds as many characters as the header announces, and leaves the
\* rest in the buffer.
RECURSIVE SplitFrom(_, _)
SplitFrom(buf, out) ==
    IF ~HeaderMatch(buf) THEN SplitResult(out, buf)
    ELSE LET nd == DigitRun(buf, 4)
             frame_len == StrToInt(SubSeq(buf, 4, 3 + nd))
             header_len == nd + 6
             total_len == header_len + frame_len
         IN  IF Len(buf) < total_len THEN SplitResult(out, buf)
             ELSE SplitFrom(SubSeq(buf, total_len + 1, Len(buf)),
                            Append(out, SubSeq(buf, header_len + 1, total_len)))

\* The pieces inbound texts are put together from: whole envelopes, a bare
\* marker, a digit and a letter.
Pieces ==
    { <<"~", "m", "~", "1", "~", "m", "~", "a">>,
      <<"~", "m", "~", "2", "~", "m", "~", "é", "1">>,
      Marker, <<"1">>, <<"a">> }

RECURSIVE TextsOf(_)
TextsOf(n) ==
    IF n = 0 THEN { <<>> }
    ELSE TextsOf(n - 1) \cup { t \o p : t \in TextsOf(n - 1), p \in Pieces }

InboundTexts == TextsOf(MaxPieces)

PayloadChars == {"a", "é", "1"}

RECURSIVE PayloadsOf(_)
PayloadsOf(n) ==
    IF n = 0 THEN { <<>> }
    ELSE PayloadsOf(n - 1) \cup { Append(t, c) : t \in PayloadsOf(n - 1), c \in PayloadChars }

Payloads == PayloadsOf(MaxPayloadLen)

NoPayload == <<"None">>

Unset == <<"unset">>

\* A frame as Candle.from_frame reads it: vlen is len(frame["v"]), ts is
\* v[0] in epoch seconds, labelled whether lbs has "bar_close_time" and label
\* its value.
CandleFrame(vlen, ts, labelled, label) ==
    [vlen |-> vlen, ts |-> ts, labelled |-> labelled, label |-> label]

NoCandleFrame == CandleFrame(0, 0, FALSE, 0)

\* What from_frame gave: nothing yet, a ValueError, or a Candle.
NoCandle == [status |-> "unset", ts_open |-> 0, ts_close |-> 0, volume |-> FALSE, interval |-> <<>>]

\* Candle.from_frame is not called.
CandleIdle ==
    /\ frame_in = NoCandleFrame
    /\ interval_in = <<>>
    /\ candle = NoCandle

\* Nothing is fed to the splitter, nothing is normalized and no candle is
\* built.
FnIdle ==
    /\ CandleIdle
    /\ inbound = <<>>
    /\ chunks = <<>>
    /\ remainder = <<>>
    /\ frames = <<>>
    /\ payload_in = NoPayload
    /\ encoder = "none"
    /\ interval_raw = <<>>
    /\ normalized = Unset
    /\ renormalized = Unset

\* The text the transport is going to deliver: any inbound text, or the
\* envelope one of the two _prepend_header makes of a payload.
CodecInit ==
    /\ CandleIdle
    /\ chunks = <<>>
    /\ remainder = <<>>
    /\ frames = <<>>
    /\ \/ /\ payload_in = NoPayload
          /\ encoder = "none"
          /\ inbound \in InboundTexts
       \/ /\ payload_in \in Payloads
          /\ encoder = "TradingViewConnection"
          /\ inbound = TradingViewConnection_prepend_header(payload_in)
       \/ /\ payload_in \in Payloads
          /\ encoder = "TvWSClient"
          /\ inbound = TvWSClient_prepend_header(payload_in)
    /\ interval_raw = <<>>
    /\ normalized = Unset
    /\ renormalized = Unset

\* The characters of inbound delivered so far.
RECURSIVE Fed(_)
Fed(cs) == IF Len(cs) = 0 THEN 0 ELSE Len(Head(cs)) + Fed(Tail(cs))

\* The longest inbound text: the longest piece has 9 characters.
MaxTextLen == 9 * MaxPieces

\* What is neither the codec's nor the normalizer's.
FnOthers == <<connVars, engineVars, hubVars, histVars, clientVars, candleVars>>

\* `buffer += raw` and the inner loop for the next k characters of inbound.
SplitterFeed(k) ==
    /\ Len(chunks) < MaxChunks
    /\ Fed(chunks) + k <= Len(inbound)
    /\ LET raw == SubSeq(inbound, Fed(chunks) + 1, Fed(chunks) + k)
           res == SplitFrom(remainder \o raw, <<>>)
       IN  /\ chunks' = Append(chunks, raw)
           /\ frames' = frames \o res.frames
           /\ remainder' = res.remainder
    /\ UNCHANGED <<inbound, payload_in, encoder, interval_raw, normalized, renormalized>>
    /\ UNCHANGED FnOthers

CodecNext == \E k \in 1..MaxTextLen : SplitterFeed(k)

(***************************************************************************)
(* intervals.py: validate() applied to an input and to its own result.     *)
(***************************************************************************)
IntervalChars ==
    { "0", "1", "2", "3", "4", "5", "6", "m", "o", "h", "d", "w", "M", "D", "W", " " }

RECURSIVE IntervalTexts(_)
IntervalTexts(n) ==
    IF n = 0 THEN { <<>> }
    ELSE IntervalTexts(n - 1)
           \cup { Append(t, c) : t \in IntervalTexts(n - 1), c \in IntervalChars }

IntervalsInit ==
    /\ CandleIdle
    /\ interval_raw \in IntervalTexts(MaxIntervalLen)
    /\ normalized = Unset
    /\ renormalized = Unset
    /\ inbound = <<>>
    /\ chunks = <<>>
    /\ remainder = <<>>
    /\ frames = <<>>
    /\ payload_in = NoPayload
    /\ encoder = "none"

\* validate(raw)
Validate ==
    /\ normalized = Unset
    /\ normalized' = validate(interval_raw)
    /\ UNCHANGED <<interval_raw, renormalized, inbound, chunks, remainder, frames,
                   payload_in, encoder>>
    /\ UNCHANGED FnOthers

\* validate() on the code the first call returned.
ValidateAgain ==
    /\ normalized \notin {Unset, ValueError}
    /\ renormalized = Unset
    /\ renormalized' = validate(normalized)
    /\ UNCHANGED <<interval_raw, normalized, inbound, chunks, remainder, frames,
                   payload_in, encoder>>
    /\ UNCHANGED FnOthers

IntervalsNext == Validate \/ ValidateAgain

(***************************************************************************)
(* models.py: Candle.from_frame applied to a frame and an interval.        *)
(***************************************************************************)
\* A timedelta in seconds, or the ValueError raised instead of one.
Timedelta(seconds) == [raised |-> FALSE, seconds |-> seconds]

Unsupported == [raised |-> TRUE, seconds |-> 0]

\* Candle._interval_to_timedelta(interval)
interval_to_timedelta(interval) ==
    LET s == Lower(interval)
        n == DropLast(s, 1)
    IN  IF IsDigit(s) THEN Timedelta(60 * StrToInt(s))
        ELSE IF EndsWith(s, <<"m">>) /\ IsDigit(n) THEN Timedelta(60 * StrToInt(n))
        ELSE IF EndsWith(s, <<"h">>) /\ IsDigit(n) THEN Timedelta(3600 * StrToInt(n))
        ELSE IF EndsWith(s, <<"d">>) /\ IsDigit(n) THEN Timedelta(86400 * StrToInt(n))
        ELSE IF EndsWith(s, <<"w">>) /\ IsDigit(n) THEN Timedelta(604800 * StrToInt(n))
        ELSE Unsupported

CandleRaised == [NoCandle EXCEPT !.status = "raised"]

\* Candle.from_frame(frame, interval=interval): the timestamps, whether
\* there is a volume, and the interval of the Candle; prices are copied.
from_frame(frame, interval) ==
    IF frame.vlen < 5 THEN CandleRaised
    ELSE LET built == [status |-> "built", ts_open |-> frame.ts, ts_close |-> 0,
                       volume |-> frame.vlen > 5, interval |-> interval]
             delta == interval_to_timedelta(interval)
         IN  IF frame.labelled THEN [built EXCEPT !.ts_close = frame.label]
             ELSE IF delta.raised THEN CandleRaised
             ELSE [built EXCEPT !.ts_close = frame.ts + delta.seconds]

\* The intervals from_frame is called with: the codes validate() returns and
\* some of the aliases the tests use.
CandleIntervals ==
    ALLOWED_INTERVALS \cup { <<"1", "m">>, <<"5", "m">>, <<"1", "5", "M">>, <<"1", "h">>,
                             <<"1", "d">>, <<"1", "w">> }

\* Frames with four to six values, opened at one of two times, without a
\* close-time label or with one a minute or two after the open.
CandleFrames ==
    { CandleFrame(vlen, ts, labelled, IF labelled THEN ts + after ELSE 0) :
        vlen \in 4..6, ts \in {60, 1600000000}, labelled \in BOOLEAN, after \in {60, 120} }

CandleInit ==
    /\ frame_in \in CandleFrames
    /\ interval_in \in CandleIntervals
    /\ candle = NoCandle
    /\ inbound = <<>>
    /\ chunks = <<>>
    /\ remainder = <<>>
    /\ frames = <<>>
    /\ payload_in = NoPayload
    /\ encoder = "none"
    /\ interval_raw = <<>>
    /\ normalized = Unset
    /\ renormalized = Unset

FromFrame ==
    /\ candle.status = "unset"
    /\ candle' = from_frame(frame_in, interval_in)
    /\ UNCHANGED <<frame_in, interval_in, inbound, chunks, remainder, frames, payload_in,
                   encoder, interval_raw, normalized, renormalized>>
    /\ UNCHANGED <<connVars, engineVars, hubVars, histVars, clientVars>>

CandleNext == FromFrame

(***************************************************************************)
(* wsclient.py: TvWSClient.  The texts of JSON payloads are abbreviated to *)
(* one character each; ParseJson gives the message json.loads() makes of   *)
(* the text it stands for.                                                 *)
(***************************************************************************)
Subscription(sym, interval) == [symbol |-> sym, interval |-> interval]

NoSubscription == Subscription("", "")

\* The lists of (symbol, interval) a client is constructed with.
SubscriptionChoices ==
    { <<Subscription("FOO", "1")>>,
      <<Subscription("FOO", "1"), Subscription("BAR", "1")>> }

\* f"s{random.randint(1_000, 9_999)}", the first NumClientSeries values.
ClientSeriesIds == 1000..(1000 + NumClientSeries - 1)

\* Tick, Bar and the status dict of series_completed, as put on the queue.
Event(type, sym, interval, closed) ==
    [type |-> type, symbol |-> sym, interval |-> interval, closed |-> closed]

\* The end-of-stream sentinel None of StreamRouter's consumer queues.
Sentinel == Event("None", "", "", FALSE)

\* No event is being handed to callbacks.
NoEvent == Event("no event", "", "", FALSE)

\* A frame handed to self._ws.send(): a protocol message of _send (its
\* method, its series id, the history it asks for) or a raw text.
WsMsg(m, sym, sid, history) ==
    [m |-> m, symbol |-> sym, sid |-> sid, history |-> history, raw |-> <<>>]

WsRaw(text) == [m |-> "raw", symbol |-> "", sid |-> 0, history |-> 0, raw |-> text]

\* _handshake()
ClientHandshake ==
    << WsMsg("set_auth_token", "", 0, 0), WsMsg("chart_create_session", "", 0, 0),
       WsMsg("quote_create_session", "", 0, 0), WsMsg("quote_set_fields", "", 0, 0) >>

\* The three frames of _subscribe(sub) with the series id drawn for it.
ClientSubscribeFrames(sub, sid, n_init_bars) ==
    << WsMsg("quote_add_symbols", sub.symbol, 0, 0),
       WsMsg("resolve_symbol", sub.symbol, 0, 0),
       WsMsg("create_series", sub.symbol, sid,
             IF 1 > n_init_bars THEN 1 ELSE n_init_bars) >>

\* __init__: `if n_init_bars is None or n_init_bars <= 0: n_init_bars = 300`,
\* with StreamRouter's TvWSClient(subscriptions), which passes None.
DefaultInitBars == 300

\* The iterators and the callbacks users of a StreamRouter ask for.
RouterConsumers == 1..NumConsumers

RouterCallbacks == 1..NumCallbacks

\* No StreamRouter.
RouterIdle ==
    /\ router = "none"
    /\ dispatch = "none"
    /\ sentIdx = 0
    /\ consumers = <<>>
    /\ cq = [c \in RouterConsumers |-> <<>>]
    /\ iter = [c \in RouterConsumers |-> "none"]
    /\ yielded = [c \in RouterConsumers |-> <<>>]
    /\ callbacks = <<>>
    /\ called = [c \in RouterCallbacks |-> <<>>]
    /\ disposed = {}
    /\ cb_copy = <<>>
    /\ event_cur = NoEvent
    /\ dropped = {}

\* A client that is not connected: nothing read, queued or sent.
ClientFresh ==
    /\ gh = "none"
    /\ old_q = <<>>
    /\ hsid = 0
    /\ hn = 0
    /\ hbars = <<>>
    /\ hdone = FALSE
    /\ ws = "none"
    /\ transportUp = FALSE
    /\ stop_flag = FALSE
    /\ rx = "none"
    /\ buffer = <<>>
    /\ client_q = <<>>
    /\ series = [i \in ClientSeriesIds |-> NoSubscription]
    /\ wsSent = <<>>
    /\ delivered = <<>>
    /\ sc = "none"
    /\ streamed = <<>>

\* No TvWSClient and no StreamRouter.
ClientIdle ==
    /\ subscriptions = <<>>
    /\ ClientFresh
    /\ RouterIdle

\* TvWSClient.__init__
ClientInit ==
    /\ subscriptions \in SubscriptionChoices
    /\ ClientFresh
    /\ RouterIdle

\* What is not the client's or the router's.
ClientOthers == <<connVars, engineVars, hubVars, histVars, fnVars, fetchVars>>

routerVars ==
    <<router, dispatch, sentIdx, consumers, cq, iter, yielded, callbacks, called, disposed,
      cb_copy, event_cur, dropped>>

\* _subscribe_all(): every subscription in turn draws a series id, enters it
\* in self._series and sends its three frames.  ids[i] is the id drawn for
\* the i-th subscription.
RECURSIVE SubscribeAll(_, _, _, _)
SubscribeAll(i, ids, reg, out) ==
    IF i > Len(subscriptions) THEN [series |-> reg, sent |-> out]
    ELSE SubscribeAll(i + 1, ids,
                      [reg EXCEPT ![ids[i]] = subscriptions[i]],
                      out \o ClientSubscribeFrames(subscriptions[i], ids[i], DefaultInitBars))

\* connect(): the socket is opened, the handshake and the subscriptions are
\* sent and the reader thread is started.
Connect ==
    /\ ws = "none"
    /\ ws' = "open"
    /\ transportUp' = TRUE
    /\ \E ids \in [1..Len(subscriptions) -> ClientSeriesIds] :
         LET done == SubscribeAll(1, ids, series, ClientHandshake)
         IN  /\ series' = done.series
             /\ wsSent' = done.sent
    /\ rx' = "running"
    /\ UNCHANGED <<subscriptions, stop_flag, buffer, client_q, delivered, sc, streamed>>

\* close(): the stop flag is set and the socket closed; the join on the
\* reader gives up after 2 s.
Close ==
    /\ stop_flag' = TRUE
    /\ ws' = IF ws = "none" THEN "none" ELSE "closed"
    /\ UNCHANGED <<subscriptions, transportUp, rx, buffer, client_q, series, wsSent, delivered,
                   sc, streamed>>

(***************************************************************************)
(* _handle_payload                                                         *)
(***************************************************************************)
\* A message as _handle_payload looks at it.  json: the text parses; dict:
\* it is an object; m: its method ("": no key "m"); plen: len(params), -1
\* when params has no len(); p1dict: params[1] is an object; n: its "n";
\* v: what its "v" is; lp, volume, upd: what v holds under these keys;
\* root: the message has "lp", "volume", "upd" at its root; sid: params[0]
\* of a du; bars: what params[1] of a du is; bar: the bars of a list.
NoMsg ==
    [json |-> FALSE, dict |-> FALSE, m |-> "", plen |-> 0, p1dict |-> FALSE, n |-> "",
     v |-> "dict", lp |-> "absent", volume |-> "absent", upd |-> "absent",
     root |-> FALSE, sid |-> 0, bars |-> "list", bar |-> <<>>]

BarData(len, first, closed) == [len |-> len, first |-> first, closed |-> closed]

Qsd(lp, volume, upd) ==
    [NoMsg EXCEPT !.json = TRUE, !.dict = TRUE, !.m = "qsd", !.plen = 2, !.p1dict = TRUE,
                  !.n = "FOO", !.lp = lp, !.volume = volume, !.upd = upd]

DuBars(sid, bars, bar) ==
    [NoMsg EXCEPT !.json = TRUE, !.dict = TRUE, !.m = "du", !.plen = 2, !.sid = sid,
                  !.bars = bars, !.bar = bar]

\* json.loads(payload) for the abbreviated texts:
\*   q  {"m":"qsd","p":["qs",{"n":"FOO","v":{"lp":1.5,"volume":2,"upd":1000}}]}
\*   l  the same without "lp";  u  the same without "upd";
\*   w  the same without "volume"
\*   v  {"m":"qsd","p":["qs",{"n":"FOO","v":[1.5,2,1000]}]}
\*   t  {"m":"qsd","p":["qs",{"n":"FOO","v":{"lp":"n/a","volume":2,"upd":1000}}]}
\*   r  {"m":"qsd","p":[],"n":"FOO","lp":1.5,"volume":2,"upd":1000}
\*   b  {"m":"du","p":[1000,[[1600000000,1,2,0,1,100,1]]]}
\*   o  the same with a bar still open: [1600000000,1,2,0,1,100]
\*   s  {"m":"du","p":[1000,[[1600000000,1,2]]]}
\*   k  {"m":"du","p":[1000,[["1600000000",1,2,0,1,100]]]}
\*   i  {"m":"du","p":[1000,5]}
\*   j  {"m":"du","p":["cs",{"s1":{"s":[{"i":1,"v":[1,2,3,4,5,6]}]}}]}
\*   c  {"m":"series_completed","p":["cs","sub_FOO_1"]}
\*   d  {"m":"series_completed","p":["cs","sub_BAR_1"]}
\*   n  [1,2]
\*   1  1
\* and every other text is not JSON.
ParseJson(payload) ==
    CASE payload = <<"q">> -> Qsd("num", "num", "num")
      [] payload = <<"l">> -> Qsd("absent", "num", "num")
      [] payload = <<"u">> -> Qsd("num", "num", "absent")
      [] payload = <<"w">> -> Qsd("num", "absent", "num")
      [] payload = <<"v">> -> [Qsd("num", "num", "num") EXCEPT !.v = "list"]
      [] payload = <<"t">> -> Qsd("text", "num", "num")
      [] payload = <<"r">> -> [Qsd("absent", "absent", "absent") EXCEPT
                                  !.plen = 0, !.p1dict = FALSE, !.root = TRUE]
      [] payload = <<"b">> -> DuBars(1000, "list", <<BarData(7, "num", TRUE)>>)
      [] payload = <<"o">> -> DuBars(1000, "list", <<BarData(6, "num", FALSE)>>)
      [] payload = <<"s">> -> DuBars(1000, "list", <<BarData(3, "num", FALSE)>>)
      [] payload = <<"k">> -> DuBars(1000, "list", <<BarData(6, "text", FALSE)>>)
      [] payload = <<"i">> -> DuBars(1000, "number", <<>>)
      [] payload = <<"j">> -> DuBars(0, "dict", <<>>)
      [] payload = <<"c">> -> [NoMsg EXCEPT !.json = TRUE, !.dict = TRUE,
                                            !.m = "series_completed", !.plen = 2, !.n = "FOO"]
      [] payload = <<"d">> -> [NoMsg EXCEPT !.json = TRUE, !.dict = TRUE,
                                            !.m = "series_completed", !.plen = 2, !.n = "BAR"]
      [] payload = <<"n">> -> [NoMsg EXCEPT !.json = TRUE]
      [] payload = <<"1">> -> [NoMsg EXCEPT !.json = TRUE]
      [] OTHER -> NoMsg

\* The state _handle_payload works on: the queue and whether an exception
\* has left it.
Handled(queue, raised) == [q |-> queue, raised |-> raised]

\* The qsd branch.  v.get() on a list raises AttributeError and float() of a
\* text raises ValueError; a missing "lp" or "volume" reads as 0.0; with no
\* "upd" the fallback pattern finds no timestamp either.
HandleQsd(msg, st) ==
    IF msg.plen > 1 /\ msg.p1dict
    THEN IF msg.v # "dict" \/ msg.lp = "text" \/ msg.volume = "text"
         THEN Handled(st.q, TRUE)
         ELSE IF msg.upd = "num"
              THEN Handled(Append(st.q, Event("tick", msg.n, "", FALSE)), FALSE)
              ELSE st
    ELSE IF msg.root
         THEN Handled(Append(st.q, Event("tick", msg.n, "", FALSE)), FALSE)
         ELSE st

\* `for bar_data in bars` of the du branch from the i-th bar on.
RECURSIVE HandleBars(_, _, _, _)
HandleBars(msg, i, reg, st) ==
    IF i > Len(msg.bar) THEN st
    ELSE LET bar_data == msg.bar[i]
             sub == IF msg.sid \in DOMAIN reg THEN reg[msg.sid] ELSE NoSubscription
         IN  IF bar_data.len < 6 THEN HandleBars(msg, i + 1, reg, st)
             ELSE IF bar_data.first = "text" THEN Handled(st.q, TRUE)
             ELSE IF sub = NoSubscription THEN HandleBars(msg, i + 1, reg, st)
             ELSE HandleBars(msg, i + 1, reg,
                             Handled(Append(st.q, Event("bar", sub.symbol, sub.interval,
                                                        bar_data.closed)), FALSE))

\* _handle_payload(payload) with the registry self._series.  The bar buffer
\* self._buffer, which nothing reads, is left out.  The status event of a
\* series_completed names its "sub" key sub_<symbol>_1 by that symbol and
\* interval.
HandlePayload(payload, reg, st) ==
    LET msg == ParseJson(payload)
    IN  IF ~msg.json THEN st
        ELSE IF ~msg.dict \/ msg.m = "" THEN st
        ELSE IF msg.m = "qsd" THEN HandleQsd(msg, st)
        ELSE IF msg.m = "series_completed"
             THEN Handled(Append(st.q, Event("status", msg.n, "1", FALSE)), FALSE)
        ELSE IF msg.m = "du"
             THEN IF msg.plen < 2 THEN st
                  ELSE IF msg.bars = "number" THEN Handled(st.q, TRUE)
                  ELSE IF msg.bars = "dict" THEN st
                  ELSE HandleBars(msg, 1, reg, st)
        ELSE st

\* The payloads sliced out of one transport frame are handled in turn; an
\* exception out of one of them ends the loop.
RECURSIVE HandleAll(_, _, _)
HandleAll(payloads, reg, st) ==
    IF Len(payloads) = 0 \/ st.raised THEN st
    ELSE HandleAll(Tail(payloads), reg, HandlePayload(Head(payloads), reg, st))

(***************************************************************************)
(* _reader_loop, stream()                                                  *)
(***************************************************************************)
\* t in s
Contains(s, t) == \E i \in 1..Len(s) : StartsWithAt(s, i, t)

\* raw.startswith("~m~") and "~h~" in raw
IsHeartbeatRaw(raw) == StartsWithAt(raw, 1, Marker) /\ Contains(raw, <<"~", "h", "~">>)

\* An echo that answers with the heartbeat envelope alone.
HeartbeatEchoEnvelope(raw) == <<"~", "m", "~", "4", "~", "m", "~", "~", "h", "~", "1">>

\* self._ws.send(raw): what the reader hands to send for a heartbeat frame.
HeartbeatEcho(raw) == raw

\* An envelope as the server frames a payload of one-byte characters.
Env(p) == Marker \o IntToStr(Len(p)) \o Marker \o p

HeartbeatFrame == Env(<<"~", "h", "~", "1">>)

\* The texts the transport delivers: a heartbeat, a tick, a closed bar, a
\* heartbeat coalesced with a tick, the two halves of a tick envelope, a qsd
\* whose "v" is a list, a frame whose length prefix is not a number, and a
\* qsd without "lp", without "upd" and without "volume".
ClientChunks ==
    { HeartbeatFrame,
      Env(<<"q">>),
      Env(<<"b">>),
      HeartbeatFrame \o Env(<<"q">>),
      <<"~", "m", "~", "1">>,
      <<"~", "m", "~", "q">>,
      Env(<<"v">>),
      <<"~", "m", "~", "x", "~", "m", "~", "q">>,
      Env(<<"l">>),
      Env(<<"u">>),
      Env(<<"w">>) }

\* One turn of `while not self._stop_flag.is_set()` in which recv() returns
\* raw.  A heartbeat frame is echoed and nothing else is done with it; any
\* other text is appended to the buffer and the payloads the inner loop
\* slices out are handled.  An exception out of _handle_payload is caught
\* nowhere and ends the reader thread (its buffer dies with it).
RxRecv(raw) ==
    /\ rx = "running"
    /\ ~stop_flag
    /\ ws = "open"
    /\ transportUp
    /\ Len(delivered) < MaxInbound
    /\ delivered' = Append(delivered, raw)
    /\ IF IsHeartbeatRaw(raw)
       THEN /\ wsSent' = Append(wsSent, WsRaw(HeartbeatEcho(raw)))
            /\ UNCHANGED <<buffer, client_q, rx>>
       ELSE LET res == SplitFrom(buffer \o raw, <<>>)
                st == HandleAll(res.frames, series, Handled(client_q, FALSE))
            IN  /\ buffer' = res.remainder
                /\ client_q' = st.q
                /\ rx' = IF st.raised THEN "raised" ELSE "running"
                /\ UNCHANGED wsSent
    /\ UNCHANGED <<subscriptions, ws, transportUp, stop_flag, series, sc, streamed>>

\* recv() raises (the socket was closed or the transport is gone): the error
\* is logged and the loop left.
RxRecvFails ==
    /\ rx = "running"
    /\ ~(ws = "open" /\ transportUp)
    /\ rx' = "recv failed"
    /\ UNCHANGED <<subscriptions, ws, transportUp, stop_flag, buffer, client_q, series, wsSent,
                   delivered, sc, streamed>>

\* The loop condition finds the stop flag set.
RxStopped ==
    /\ rx = "running"
    /\ stop_flag
    /\ rx' = "stopped"
    /\ UNCHANGED <<subscriptions, ws, transportUp, stop_flag, buffer, client_q, series, wsSent,
                   delivered, sc, streamed>>

\* The server or the network ends the transport.
TransportDrops ==
    /\ ws = "open"
    /\ transportUp
    /\ transportUp' = FALSE
    /\ UNCHANGED <<subscriptions, ws, stop_flag, rx, buffer, client_q, series, wsSent, delivered,
                   sc, streamed>>

\* A user starts iterating stream().
StreamStart ==
    /\ sc = "none"
    /\ ws # "none"
    /\ sc' = "polling"
    /\ UNCHANGED <<subscriptions, ws, transportUp, stop_flag, rx, buffer, client_q, series, wsSent,
                   delivered, streamed>>

\* self._q.get(timeout=0.5) returns an event and stream() yields it.
StreamGet ==
    /\ sc = "polling"
    /\ client_q # <<>>
    /\ streamed' = Append(streamed, Head(client_q))
    /\ client_q' = Tail(client_q)
    /\ UNCHANGED <<subscriptions, ws, transportUp, stop_flag, rx, buffer, series, wsSent,
                   delivered, sc>>

\* `while not self._stop_flag.is_set() or not self._q.empty()` is false:
\* the generator ends.  (With the flag unset and the queue empty, get() times
\* out and the loop goes round without a change of state.)
StreamEnd ==
    /\ sc = "polling"
    /\ stop_flag
    /\ client_q = <<>>
    /\ sc' = "ended"
    /\ UNCHANGED <<subscriptions, ws, transportUp, stop_flag, rx, buffer, client_q, series, wsSent,
                   delivered, streamed>>

\* The steps of a TvWSClient used on its own.
ClientConnect == Connect /\ UNCHANGED routerVars /\ UNCHANGED ClientOthers

ClientClose == ~stop_flag /\ Close /\ UNCHANGED routerVars /\ UNCHANGED ClientOthers

ClientRecv(raw) == RxRecv(raw) /\ UNCHANGED routerVars /\ UNCHANGED ClientOthers

ClientRecvFails == RxRecvFails /\ UNCHANGED routerVars /\ UNCHANGED ClientOthers

ClientRxStopped == RxStopped /\ UNCHANGED routerVars /\ UNCHANGED ClientOthers

ClientTransportDrops == TransportDrops /\ UNCHANGED routerVars /\ UNCHANGED ClientOthers

ClientStreamStart == StreamStart /\ UNCHANGED routerVars /\ UNCHANGED ClientOthers

ClientStreamGet == StreamGet /\ UNCHANGED routerVars /\ UNCHANGED ClientOthers

ClientStreamEnd == StreamEnd /\ UNCHANGED routerVars /\ UNCHANGED ClientOthers

\* What the reader thread does.
ClientReader ==
    \/ \E raw \in ClientChunks : ClientRecv(raw)
    \/ ClientRecvFails
    \/ ClientRxStopped

\* What the thread iterating stream() does.
ClientStreamer == ClientStreamGet \/ ClientStreamEnd

ClientNext ==
    \/ ClientConnect
    \/ ClientClose
    \/ ClientReader
    \/ ClientTransportDrops
    \/ ClientStreamStart
    \/ ClientStreamer

(***************************************************************************)
(* wsclient.py: get_history on a connected client, beside its reader       *)
(* thread and a user iterating stream().                                   *)
(***************************************************************************)
\* get_history("BAR", "1", n_bars)
HistorySub == Subscription("BAR", "1")

\* What is neither get_history's nor the client's.
FetchOthers == <<connVars, engineVars, hubVars, histVars, fnVars, routerVars>>

\* get_history up to the first q.get() of _fetch_history: a new queue takes
\* the place of self._q, a series id is drawn and registered and the three
\* request frames are sent.
GetHistoryCall ==
    /\ gh = "none"
    /\ ws = "open"
    /\ transportUp
    /\ ~stop_flag
    /\ gh' = "fetching"
    /\ old_q' = client_q
    /\ client_q' = <<>>
    /\ hbars' = <<>>
    /\ hdone' = FALSE
    /\ \E sid \in ClientSeriesIds, n_bars \in 1..MaxHistoryBars :
         /\ hsid' = sid
         /\ hn' = n_bars
         /\ series' = [series EXCEPT ![sid] = HistorySub]
         /\ wsSent' = wsSent \o ClientSubscribeFrames(HistorySub, sid, n_bars)
    /\ UNCHANGED <<subscriptions, ws, transportUp, stop_flag, rx, buffer, delivered, sc, streamed>>
    /\ UNCHANGED FetchOthers

\* The loop `while not completed and len(bars) < n_bars` goes on.
FetchGoesOn == ~hdone /\ Len(hbars) < hn

\* evt = self._q.get(timeout=remaining) returns an event: a Bar of the
\* requested symbol and interval is collected, the completion of the
\* requested series ends the loop, and anything else is let go.
GetHistoryGet ==
    /\ gh = "fetching"
    /\ FetchGoesOn
    /\ client_q # <<>>
    /\ client_q' = Tail(client_q)
    /\ LET evt == Head(client_q)
       IN  IF evt.type = "bar" /\ evt.symbol = HistorySub.symbol
                               /\ evt.interval = HistorySub.interval
           THEN hbars' = Append(hbars, evt) /\ hdone' = hdone
           ELSE IF evt.type = "status" /\ evt.symbol = HistorySub.symbol
                                       /\ evt.interval = HistorySub.interval
           THEN hbars' = hbars /\ hdone' = TRUE
           ELSE hbars' = hbars /\ hdone' = hdone
    /\ UNCHANGED <<gh, old_q, hsid, hn>>
    /\ UNCHANGED <<subscriptions, ws, transportUp, stop_flag, rx, buffer, series, wsSent,
                   delivered, sc, streamed>>
    /\ UNCHANGED FetchOthers

\* The loop has ended: the series is taken off the registry, the bars are
\* returned and the finally clause puts the old queue back.
GetHistoryReturn ==
    /\ gh = "fetching"
    /\ ~FetchGoesOn
    /\ gh' = "returned"
    /\ series' = [series EXCEPT ![hsid] = NoSubscription]
    /\ client_q' = old_q
    /\ UNCHANGED <<old_q, hsid, hn, hbars, hdone>>
    /\ UNCHANGED <<subscriptions, ws, transportUp, stop_flag, rx, buffer, wsSent, delivered, sc,
                   streamed>>
    /\ UNCHANGED FetchOthers

\* The deadline passes in the loop: the series is taken off the registry,
\* TimeoutError is raised and the finally clause puts the old queue back.
GetHistoryTimeout ==
    /\ gh = "fetching"
    /\ FetchGoesOn
    /\ gh' = "timeout"
    /\ series' = [series EXCEPT ![hsid] = NoSubscription]
    /\ client_q' = old_q
    /\ UNCHANGED <<old_q, hsid, hn, hbars, hdone>>
    /\ UNCHANGED <<subscriptions, ws, transportUp, stop_flag, rx, buffer, wsSent, delivered, sc,
                   streamed>>
    /\ UNCHANGED FetchOthers

\* The texts the transport delivers while a history is fetched: a tick of
\* FOO, a closed bar of series 1000 and the completion of sub_BAR_1.
FetchChunks == { Env(<<"q">>), Env(<<"b">>), Env(<<"d">>) }

FetchRecv(raw) == RxRecv(raw) /\ UNCHANGED routerVars /\ UNCHANGED ClientOthers

\* What the thread calling get_history does.
GetHistory == GetHistoryCall \/ GetHistoryGet \/ GetHistoryReturn \/ GetHistoryTimeout

FetchHistoryNext ==
    \/ ClientConnect
    \/ \E raw \in FetchChunks : FetchRecv(raw)
    \/ ClientStreamStart
    \/ ClientStreamGet
    \/ GetHistory

(***************************************************************************)
(* streaming.py: StreamRouter over a TvWSClient.                           *)
(***************************************************************************)
\* queue_maxsize, the default of StreamRouter.__init__.
queue_maxsize == 1

\* Consumers with an odd number iterate iter_ticks("FOO"), those with an
\* even number iter_closed_bars(("FOO", "1")); every callback is
\* subscribe(("FOO", "1"), on_event).
ConsumerType(c) == IF c % 2 = 1 THEN "tick" ELSE "bar"

\* The test of _dispatch_loop for an iterator consumer.
ConsumerMatches(c, event) ==
    IF ConsumerType(c) = "tick"
    THEN event.type = "tick" /\ event.symbol = "FOO"
    ELSE event.type = "bar" /\ event.closed /\ event.symbol = "FOO" /\ event.interval = "1"

\* The test of _dispatch_loop for a callback registered without tick=True.
CallbackMatches(event) ==
    event.type = "bar" /\ event.closed /\ event.symbol = "FOO" /\ event.interval = "1"

\* StreamRouter([("FOO", "1")]): a client that is not connected yet.
RouterInit ==
    /\ subscriptions = <<Subscription("FOO", "1")>>
    /\ ClientFresh
    /\ router = "new"
    /\ dispatch = "none"
    /\ sentIdx = 0
    /\ consumers = <<>>
    /\ cq = [c \in RouterConsumers |-> <<>>]
    /\ iter = [c \in RouterConsumers |-> "none"]
    /\ yielded = [c \in RouterConsumers |-> <<>>]
    /\ callbacks = <<>>
    /\ called = [c \in RouterCallbacks |-> <<>>]
    /\ disposed = {}
    /\ cb_copy = <<>>
    /\ event_cur = NoEvent
    /\ dropped = {}

\* self._lock is held by the dispatcher while it hands out the sentinels.
LockFree == dispatch # "sentinels"

\* `if self._dispatch_thread is None: self._start_dispatch()`
StartDispatch == dispatch' = IF dispatch = "none" THEN "running" ELSE dispatch

\* __enter__: self._client.connect()
RouterEnter ==
    /\ router = "new"
    /\ router' = "entered"
    /\ Connect
    /\ UNCHANGED <<dispatch, sentIdx, consumers, cq, iter, yielded, callbacks, called, disposed>>
    /\ UNCHANGED <<cb_copy, event_cur, dropped>>
    /\ UNCHANGED ClientOthers

\* __exit__ from where it stands to where it blocks or returns: join() on
\* the dispatcher thread, if there is one, returns when that thread has
\* ended, and only then is the client closed.
RouterExit ==
    /\ router \in {"entered", "joining"}
    /\ IF dispatch \in {"none", "done"}
       THEN /\ router' = "exited"
            /\ Close
       ELSE /\ router = "entered"
            /\ router' = "joining"
            /\ UNCHANGED <<subscriptions, ws, transportUp, stop_flag, rx, buffer, client_q, series,
                           wsSent, delivered, sc, streamed>>
    /\ UNCHANGED <<dispatch, sentIdx, consumers, cq, iter, yielded, callbacks, called, disposed>>
    /\ UNCHANGED <<cb_copy, event_cur, dropped>>
    /\ UNCHANGED ClientOthers

\* The first next() on iter_ticks / iter_closed_bars: the consumer is
\* registered under the lock, the dispatcher started if there is none, and
\* the iterator waits in q.get().
IterStart(c) ==
    /\ router \in {"entered", "joining", "exited"}
    /\ iter[c] = "none"
    /\ LockFree
    /\ consumers' = Append(consumers, c)
    /\ iter' = [iter EXCEPT ![c] = "waiting"]
    /\ StartDispatch
    /\ UNCHANGED <<router, sentIdx, cq, yielded, callbacks, called, disposed>>
    /\ UNCHANGED <<cb_copy, event_cur, dropped>>
    /\ UNCHANGED <<subscriptions, ws, transportUp, stop_flag, rx, buffer, client_q, series, wsSent,
                   delivered, sc, streamed>>
    /\ UNCHANGED ClientOthers

\* q.get() returns: an event is yielded, the sentinel ends the loop.
IterGet(c) ==
    /\ iter[c] = "waiting"
    /\ cq[c] # <<>>
    /\ cq' = [cq EXCEPT ![c] = Tail(cq[c])]
    /\ IF Head(cq[c]) = Sentinel
       THEN /\ iter' = [iter EXCEPT ![c] = "leaving"]
            /\ UNCHANGED yielded
       ELSE /\ yielded' = [yielded EXCEPT ![c] = Append(yielded[c], Head(cq[c]))]
            /\ UNCHANGED iter
    /\ UNCHANGED <<router, dispatch, sentIdx, consumers, callbacks, called, disposed>>
    /\ UNCHANGED <<cb_copy, event_cur, dropped>>
    /\ UNCHANGED <<subscriptions, ws, transportUp, stop_flag, rx, buffer, client_q, series, wsSent,
                   delivered, sc, streamed>>
    /\ UNCHANGED ClientOthers

\* The finally clause of the iterator: under the lock the consumer is taken
\* off the list, and the iterator has ended.
IterLeave(c) ==
    /\ iter[c] = "leaving"
    /\ LockFree
    /\ consumers' = SelectSeq(consumers, LAMBDA x : x # c)
    /\ iter' = [iter EXCEPT ![c] = "ended"]
    /\ UNCHANGED <<router, dispatch, sentIdx, cq, yielded, callbacks, called, disposed>>
    /\ UNCHANGED <<cb_copy, event_cur, dropped>>
    /\ UNCHANGED <<subscriptions, ws, transportUp, stop_flag, rx, buffer, client_q, series, wsSent,
                   delivered, sc, streamed>>
    /\ UNCHANGED ClientOthers

\* subscribe(pair, on_event): the callback is registered under the lock and
\* the dispatcher started if there is none.
RouterSubscribe(b) ==
    /\ router \in {"entered", "joining", "exited"}
    /\ ~InSeq(b, callbacks)
    /\ b \notin disposed
    /\ LockFree
    /\ callbacks' = Append(callbacks, b)
    /\ StartDispatch
    /\ UNCHANGED <<router, sentIdx, consumers, cq, iter, yielded, called, disposed>>
    /\ UNCHANGED <<cb_copy, event_cur, dropped>>
    /\ UNCHANGED <<subscriptions, ws, transportUp, stop_flag, rx, buffer, client_q, series, wsSent,
                   delivered, sc, streamed>>
    /\ UNCHANGED ClientOthers

\* _dispose() of a registered callback.
Dispose(b) ==
    /\ InSeq(b, callbacks)
    /\ LockFree
    /\ callbacks' = SelectSeq(callbacks, LAMBDA x : x # b)
    /\ disposed' = disposed \cup {b}
    /\ UNCHANGED <<router, dispatch, sentIdx, consumers, cq, iter, yielded, called>>
    /\ UNCHANGED <<cb_copy, event_cur, dropped>>
    /\ UNCHANGED <<subscriptions, ws, transportUp, stop_flag, rx, buffer, client_q, series, wsSent,
                   delivered, sc, streamed>>
    /\ UNCHANGED ClientOthers

\* put_nowait(event) with one try around the whole loop: the first full queue
\* ends the loop for the consumers after it.
RECURSIVE PutAllStopAtFull(_, _, _)
PutAllStopAtFull(event, i, queues) ==
    IF i > Len(consumers) THEN queues
    ELSE LET c == consumers[i]
         IN  IF ~ConsumerMatches(c, event) THEN PutAllStopAtFull(event, i + 1, queues)
             ELSE IF Len(queues[c]) < queue_maxsize
                  THEN PutAllStopAtFull(event, i + 1,
                                        [queues EXCEPT ![c] = Append(queues[c], event)])
                  ELSE queues

\* put_nowait(event) for the consumers from the i-th of the list on: a
\* matching consumer gets the event unless its queue is full.
RECURSIVE PutAll(_, _, _)
PutAll(event, i, queues) ==
    IF i > Len(consumers) THEN queues
    ELSE LET c == consumers[i]
         IN  IF ConsumerMatches(c, event) /\ Len(queues[c]) < queue_maxsize
             THEN PutAll(event, i + 1, [queues EXCEPT ![c] = Append(queues[c], event)])
             ELSE PutAll(event, i + 1, queues)

\* The consumers whose put_nowait(event) raises queue.Full.
FullFor(event) ==
    { c \in RouterConsumers :
        InSeq(c, consumers) /\ ConsumerMatches(c, event) /\ Len(cq[c]) >= queue_maxsize }

\* One turn of `for event in self._client.stream()` up to the callbacks: the
\* event goes to the iterator consumers under the lock, and the list of
\* callbacks is copied without it.
DispatchEvent ==
    /\ dispatch = "running"
    /\ cb_copy = <<>>
    /\ client_q # <<>>
    /\ client_q' = Tail(client_q)
    /\ cq' = PutAll(Head(client_q), 1, cq)
    /\ dropped' = dropped \cup FullFor(Head(client_q))
    /\ cb_copy' = callbacks
    /\ event_cur' = IF callbacks = <<>> THEN NoEvent ELSE Head(client_q)
    /\ UNCHANGED <<router, dispatch, sentIdx, consumers, iter, yielded, callbacks, called,
                   disposed>>
    /\ UNCHANGED <<subscriptions, ws, transportUp, stop_flag, rx, buffer, series, wsSent,
                   delivered, sc, streamed>>
    /\ UNCHANGED ClientOthers

\* The next callback of the copy: it is invoked if the event matches it.
DispatchCallback ==
    /\ dispatch = "running"
    /\ cb_copy # <<>>
    /\ called' = [called EXCEPT ![Head(cb_copy)] =
                    IF CallbackMatches(event_cur) THEN Append(@, event_cur) ELSE @]
    /\ cb_copy' = Tail(cb_copy)
    /\ event_cur' = IF Len(cb_copy) = 1 THEN NoEvent ELSE event_cur
    /\ UNCHANGED <<router, dispatch, sentIdx, consumers, cq, iter, yielded, callbacks, disposed,
                   dropped>>
    /\ UNCHANGED <<subscriptions, ws, transportUp, stop_flag, rx, buffer, client_q, series, wsSent,
                   delivered, sc, streamed>>
    /\ UNCHANGED ClientOthers

\* stream() ends (stop flag set, queue empty): the dispatcher takes the lock
\* for the sentinels, or is done when no consumer is registered.
DispatchStreamEnd ==
    /\ dispatch = "running"
    /\ cb_copy = <<>>
    /\ stop_flag
    /\ client_q = <<>>
    /\ dispatch' = IF consumers = <<>> THEN "done" ELSE "sentinels"
    /\ sentIdx' = 1
    /\ UNCHANGED <<router, consumers, cq, iter, yielded, callbacks, called, disposed>>
    /\ UNCHANGED <<cb_copy, event_cur, dropped>>
    /\ UNCHANGED <<subscriptions, ws, transportUp, stop_flag, rx, buffer, client_q, series, wsSent,
                   delivered, sc, streamed>>
    /\ UNCHANGED ClientOthers

\* cons["queue"].put(None) for the next consumer: it blocks while that
\* queue is full; after the last one the lock is released and the thread ends.
DispatchSentinel ==
    /\ dispatch = "sentinels"
    /\ Len(cq[consumers[sentIdx]]) < queue_maxsize
    /\ cq' = [cq EXCEPT ![consumers[sentIdx]] = Append(@, Sentinel)]
    /\ sentIdx' = sentIdx + 1
    /\ dispatch' = IF sentIdx = Len(consumers) THEN "done" ELSE "sentinels"
    /\ UNCHANGED <<router, consumers, iter, yielded, callbacks, called, disposed>>
    /\ UNCHANGED <<cb_copy, event_cur, dropped>>
    /\ UNCHANGED <<subscriptions, ws, transportUp, stop_flag, rx, buffer, client_q, series, wsSent,
                   delivered, sc, streamed>>
    /\ UNCHANGED ClientOthers

\* The texts the transport delivers to a router's client: a tick and a
\* closed bar.
RouterChunks == { Env(<<"q">>), Env(<<"b">>) }

RouterRecv(raw) ==
    /\ Len(delivered) < MaxRouterInbound
    /\ RxRecv(raw)
    /\ UNCHANGED routerVars
    /\ UNCHANGED ClientOthers

\* What the reader thread of the router's client does.
RouterReader ==
    \/ \E raw \in RouterChunks : RouterRecv(raw)
    \/ ClientRecvFails
    \/ ClientRxStopped

\* What the dispatcher thread does.
Dispatcher == DispatchEvent \/ DispatchCallback \/ DispatchStreamEnd \/ DispatchSentinel

\* What the thread of an iterator does once it waits in q.get().
IterRun(c) == IterGet(c) \/ IterLeave(c)

RouterNext ==
    \/ RouterEnter
    \/ RouterExit
    \/ \E c \in RouterConsumers : IterStart(c)
    \/ \E c \in RouterConsumers : IterRun(c)
    \/ \E b \in RouterCallbacks : RouterSubscribe(b)
    \/ \E b \in RouterCallbacks : Dispose(b)
    \/ Dispatcher
    \/ RouterReader
    \/ ClientTransportDrops

(***************************************************************************)
(* The specifications of the codec, the normalizer, the client and the     *)
(* router.                                                                 *)
(***************************************************************************)
\* Neither a client nor a codec input.
TailIdle == ClientIdle /\ FnIdle

Others == NoConnection /\ EngineIdle /\ HubIdle /\ HistIdle

SpecCodecInit == CodecInit /\ ClientIdle /\ Others

SpecCodec == SpecCodecInit /\ [][CodecNext]_vars

SpecIntervalsInit == IntervalsInit /\ ClientIdle /\ Others

SpecIntervals == SpecIntervalsInit /\ [][IntervalsNext]_vars

SpecCandleInit == CandleInit /\ ClientIdle /\ Others

SpecCandle == SpecCandleInit /\ [][CandleNext]_vars

SpecClientInit == ClientInit /\ FnIdle /\ Others

SpecClient == SpecClientInit /\ [][ClientNext]_vars

\* A client on which get_history is called once.
SpecGetHistory == SpecClientInit /\ [][FetchHistoryNext]_vars

\* The reader thread and the thread iterating stream() keep running; when
\* the user calls close() is up to the user.
SpecClientFair ==
    SpecClient /\ WF_vars(ClientReader) /\ WF_vars(ClientStreamer)

SpecRouterInit == RouterInit /\ FnIdle /\ Others

SpecRouter == SpecRouterInit /\ [][RouterNext]_vars

\* The threads of the router (reader, dispatcher, iterators) and a started
\* __exit__ keep running; what the user calls and when is up to the user.
SpecRouterFair ==
    /\ SpecRouter
    /\ WF_vars(RouterExit)
    /\ WF_vars(Dispatcher)
    /\ WF_vars(RouterReader)
    /\ \A c \in RouterConsumers : WF_vars(IterRun(c))

(***************************************************************************)
(* The specifications.                                                     *)
(***************************************************************************)
StreamNext ==
    \/ StreamEnter
    \/ RunConnectOk
    \/ RunConnectFail
    \/ RunSubscribeStep
    \/ RunNextPair
    \/ RunSubscribeFailed
    \/ RunReadFrame
    \/ RunReadError
    \/ RunStreamEnd
    \/ RunBackoffElapsed
    \/ StreamTransportBreaks
    \/ StreamExit
    \/ RunCancelled
    \/ StreamExitDone
    \/ \E s \in Iterators : StreamSubscribe(s)
    \/ \E s \in Iterators : ConsumerNext(s)
    \/ \E s \in Iterators : ConsumerClose(s)

SpecStreamInit == StreamInit /\ NoConnection /\ HubIdle /\ HistIdle /\ TailIdle

SpecStream == SpecStreamInit /\ [][StreamNext]_vars

(***************************************************************************)
(* A hub used on its own: a publisher, the consumers and aclose().         *)
(***************************************************************************)
\* _Hub(maxsize)
HubInit ==
    /\ hubMaxsize \in 0..MaxQueue
    /\ hubSubs = {}
    /\ chan = [s \in Subs |-> NoChan]
    /\ cons = [s \in Subs |-> "none"]
    /\ received = [s \in Subs |-> <<>>]
    /\ published = <<>>
    /\ subAt = [s \in Subs |-> 0]
    /\ firstDrop = [s \in Subs |-> 0]

\* The publisher publishes its next item; items are numbered in publish order.
HubPublishNext ==
    /\ Len(published) < MaxPublish
    /\ HubPublish(Len(published) + 1)
    /\ UNCHANGED <<connVars, engineVars, histVars, tailVars>>

\* The owner of the hub calls aclose().
HubAcloseCall ==
    /\ HubAclose
    /\ UNCHANGED <<connVars, engineVars, histVars, tailVars>>

HubNext ==
    \/ \E s \in Subs : StreamSubscribe(s)
    \/ HubPublishNext
    \/ \E s \in Subs : ConsumerNext(s)
    \/ \E s \in Subs : ConsumerClose(s)
    \/ HubAcloseCall

SpecHubInit == HubInit /\ NoConnection /\ EngineIdle /\ HistIdle /\ TailIdle

SpecHub == SpecHubInit /\ [][HubNext]_vars

\* The transport of a connection used on its own breaks.
ConnTransportBreaks ==
    /\ TransportBreaks
    /\ UNCHANGED <<engineVars, hubVars, histVars, tailVars>>

ConnNext ==
    \/ \E t \in Tasks : CallSubscribeTicks(t)
    \/ \E t \in Tasks : CallSubscribeCandles(t)
    \/ \E t \in Tasks : EnsureStartedEnter(t)
    \/ \E t \in Tasks : EnsureStartedSend(t)
    \/ \E t \in Tasks : EnsureStartedDone(t)
    \/ \E t \in Tasks : TicksAfterQuoteAdd(t)
    \/ \E t \in Tasks : CandlesAfterQuoteAdd(t)
    \/ \E t \in Tasks : CandlesAfterResolve(t)
    \/ \E t \in Tasks : CandlesAfterCreate(t)
    \/ ConnTransportBreaks

\* A connection used on its own: no CandleStream, no hub.
SpecConnInit == ConnInit /\ EngineIdle /\ HubIdle /\ HistIdle /\ TailIdle

SpecConn == SpecConnInit /\ [][ConnNext]_vars

SpecHistoricInit == HistIdle /\ NoConnection /\ EngineIdle /\ HubIdle /\ TailIdle

SpecHistoric == SpecHistoricInit /\ [][HistoricNext]_vars

SpecCacheInit == HistInit /\ NoConnection /\ EngineIdle /\ HubIdle /\ TailIdle

SpecCache == SpecCacheInit /\ [][CacheNext]_vars

SpecFetchInit == HistIdle /\ NoConnection /\ EngineIdle /\ HubIdle /\ TailIdle

SpecFetch == SpecFetchInit /\ [][FetchNext]_vars

(***************************************************************************)
(* Properties of the connection (SpecConn).                                *)
(***************************************************************************)
IsHandshake(f) == \E k \in 1..4 : f.m = HandshakeMethods[k]

HandshakeSent == SelectSeq(sent, IsHandshake)

\* A task is past the handshake gate: _ensure_started has returned to it.
PastGate(t) == pc[t] \in {"t_qas", "c_qas", "c_res", "c_cs", "ret"}

FramesOfCall(c) == { i \in 1..Len(sent) : sent[i].call = c }

\* Two subscribe calls overlapped: a frame of one call lies between two frames
\* of another.
CallsOverlapped ==
    \E i, j, k \in 1..Len(sent) :
        i < j /\ j < k /\ sent[i].call = sent[k].call /\ sent[j].call # sent[i].call

\* C1: on one connection the four handshake frames are sent at most once each
\* and in the order set_auth_token, chart_create_session, quote_create_session,
\* quote_set_fields, the first frame on the wire is set_auth_token, and once
\* the connection is started or a call is past the gate all four are out.
C1_HandshakeOnce ==
    /\ Len(HandshakeSent) <= 4
    /\ \A k \in 1..Len(HandshakeSent) : HandshakeSent[k].m = HandshakeMethods[k]
    /\ sent # <<>> => sent[1].m = "set_auth_token"
    /\ (started \/ \E t \in Tasks : PastGate(t)) => Len(HandshakeSent) = 4

C1_Witness ==
    /\ CallsOverlapped
    /\ started
    /\ Len(HandshakeSent) = 4
    /\ \E i \in 1..Len(sent) : sent[i].call = 2

\* C2: every quote_add_symbols, resolve_symbol and create_series frame on the
\* wire comes after the four handshake frames.
C2_HandshakeFirst ==
    \A j \in 1..Len(sent) :
        sent[j].m \in SubscribeMethods =>
            /\ j > 4
            /\ \A k \in 1..4 : sent[k].m = HandshakeMethods[k]

\* A call that had to wait at the gate during the handshake has sent a
\* subscribe frame.
C2_Witness ==
    \E j \in 1..Len(sent) :
        /\ sent[j].m \in SubscribeMethods
        /\ sent[j].call # sent[1].call
        /\ \A i \in 1..(j - 1) : sent[i].m \notin SubscribeMethods

MethodRank(m) ==
    CASE m = "set_auth_token" -> 1
      [] m = "chart_create_session" -> 2
      [] m = "quote_create_session" -> 3
      [] m = "quote_set_fields" -> 4
      [] m = "quote_add_symbols" -> 5
      [] m = "resolve_symbol" -> 6
      [] m = "create_series" -> 7

QuoteAddCount(sym) ==
    Cardinality({ i \in 1..Len(sent) : sent[i].m = "quote_add_symbols" /\ sent[i].sym = sym })

\* C4: at most one quote_add_symbols frame is sent per upper-cased symbol.
C4_QuoteAddOnce == \A s \in Symbols : QuoteAddCount(Upper(s)) <= 1

(***************************************************************************)
(* Properties of the streaming engine (SpecStream).                        *)
(***************************************************************************)
\* The subscribe frames the claim expects for the pairs from the i-th on, as
\* <<method, symbol, resolution>>, given the symbols already announced.
RECURSIVE SubscribeSequence(_, _)
SubscribeSequence(i, announced) ==
    IF i > Len(pairs) THEN <<>>
    ELSE LET sym == Upper(pairs[i].symbol)
             res == validate(pairs[i].interval)
         IN  (IF sym \in announced THEN <<>> ELSE << <<"quote_add_symbols", sym, <<>> >> >>)
             \o << <<"resolve_symbol", sym, <<>> >>, <<"create_series", sym, res>> >>
             \o SubscribeSequence(i + 1, announced \cup {sym})

WholeSequence ==
    [k \in 1..4 |-> <<HandshakeMethods[k], <<>>, <<>> >>] \o SubscribeSequence(1, {})

SentShape == [i \in 1..Len(sent) |-> <<sent[i].m, sent[i].sym, sent[i].res>>]

\* The session state of a transport on which nothing was sent yet is fresh.
FreshOnNewTransport ==
    (wireOpen /\ sent = <<>>) =>
        (~started /\ quote_symbols = {} /\ candle_subs = {} /\ series_ids = <<>>)

C6_BackoffDelay ==
    runPc = "backoff" => delay = Min(reconnect_delay * 2^(attempt - 1), RECONNECT_MAX_DELAY)

\* C7: _run starts a connection attempt only at first start or out of the
\* backoff sleep.
C7_BackoffBeforeConnect ==
    [][(runPc' = "connect" /\ runPc # "connect") => runPc \in {"init", "backoff"}]_vars

\* C8: once the stream is closed, no iterator that subscribe() had returned by
\* then is left suspended and none has raised an exception into its consumer.
C8_CleanEnd ==
    streamState = "closed" => \A s \in itersAtClose : cons[s] \notin {"waiting", "raised"}

\* C9: once __aexit__ has returned, _run has ended, the transport is closed,
\* and no transport is opened, no frame sent and no candle published.
C9_ClosedTerminal ==
    [][streamState = "closed" =>
          /\ streamState' = "closed"
          /\ runPc' = "done"
          /\ ~wireOpen'
          /\ opens' = opens
          /\ sent' = sent
          /\ published' = published]_vars

\* The stream was closed while _run slept in backoff after a connection that
\* had sent frames, and a consumer has acted since.
C9_Witness ==
    /\ streamState = "closed"
    /\ closedFrom = "backoff"
    /\ opens >= 1
    /\ sent # <<>>
    /\ \E s \in Iterators : cons[s] = "raised"

(***************************************************************************)
(* Properties of the hub (SpecHub).                                        *)
(***************************************************************************)
\* Everything subscriber s was given: what its consumer took and what waits
\* in its queue.
Given(s) == received[s] \o chan[s].queue

\* Subscriber s can take one more item: its consumer is suspended in
\* receive() or its queue holds fewer than maxsize items.
HasCapacity(s) == cons[s] = "waiting" \/ Len(chan[s].queue) < hubMaxsize

Live(s) == s \in hubSubs /\ chan[s].sendOpen /\ chan[s].recvOpen

\* C10: publish is always possible; a publish gives the item to every live
\* subscriber with capacity, gives nothing to a full one and leaves every live
\* subscriber registered.
C10_DropForFullOnly ==
    /\ [](Len(published) < MaxPublish => ENABLED HubPublishNext)
    /\ [][published' # published =>
            \A s \in Subs : Live(s) =>
                /\ s \in hubSubs'
                /\ Given(s)' = IF HasCapacity(s)
                               THEN Append(Given(s), published'[Len(published')])
                               ELSE Given(s)]_vars

\* Subscriber s was full at the second publish and got the third, subscriber
\* u got all three.
C10_Witness ==
    \E s, u \in Subs :
        /\ Given(s) = <<1, 3>>
        /\ Given(u) = <<1, 2, 3>>
        /\ s \in hubSubs


(***************************************************************************)
(* Claims C11..C12: what the subscribers of one hub get.                   *)
(***************************************************************************)
\* Subscriber s registered before the first publish.
RegisteredFirst(s) == cons[s] # "none" /\ subAt[s] = 0

\* Items are numbered in publish order: q is in publish order.
InPublishOrder(q) == \A i, j \in 1..Len(q) : i < j => q[i] < q[j]

\* The first item publish() dropped for s, one past the last published item
\* when there is none.
FirstDrop(s) == IF firstDrop[s] = 0 THEN Len(published) + 1 ELSE firstDrop[s]

ItemsOf(q) == { q[i] : i \in 1..Len(q) }

\* C11: a subscriber registered before the first publish gets the items in
\* publish order; what it got before its first drop is a prefix of the
\* published sequence, the whole of it while the subscriber is live; two such
\* subscribers never see two items in opposite orders.
C11_SamePrefixSameOrder ==
    /\ \A s \in Subs : RegisteredFirst(s) =>
          /\ InPublishOrder(Given(s))
          /\ \A i \in 1..Len(Given(s)) : Given(s)[i] < FirstDrop(s) => Given(s)[i] = i
          /\ Live(s) => \A j \in 1..(FirstDrop(s) - 1) : j \in ItemsOf(Given(s))
    /\ \A s, u \in Subs : RegisteredFirst(s) /\ RegisteredFirst(u) =>
          \A i, j \in 1..Len(received[s]) : \A k, l \in 1..Len(received[u]) :
              (i < j /\ received[s][i] = received[u][k] /\ received[s][j] = received[u][l])
                  => k < l

\* Two subscribers registered before the first publish, one has consumed all
\* three items from its backlog, the other two of them and lost the third.
C11_Witness ==
    \E s, u \in Subs :
        /\ s # u /\ RegisteredFirst(s) /\ RegisteredFirst(u)
        /\ hubMaxsize = 2
        /\ received[s] = <<1, 2, 3>>
        /\ received[u] = <<1, 2>> /\ firstDrop[u] = 3

\* C12: with the default capacity 0 no item is ever dropped for a registered
\* subscriber; an item is dropped only by a hub of capacity > 0.
C12_DefaultUnbounded ==
    \A s \in Subs : firstDrop[s] # 0 => hubMaxsize > 0

(***************************************************************************)
(* Claims C13..C16: the permits and the cache of get_historic_candles.     *)
(***************************************************************************)
\* The calls that hold a permit: past acquire() and not yet at release().
Holding == { c \in HCalls : hpc[c] \in {"connecting", "sending", "reading", "closing"} }

\* Call c is made in this step.
Made(c) == hpc[c] = "idle" /\ hpc'[c] # "idle"

\* Call c fails in the step it is made in, with error e and no transport.
FailsAtOnce(c, e) == hpc'[c] = "raised" /\ hend'[c] = e /\ hws'[c] = "none"

\* C13, as stated: at most 3 calls hold a permit, and a call made while 3
\* hold one fails at once with TooManyRequestsError and opens no transport.
C13_AtMostThree ==
    /\ [](Cardinality(Holding) <= SemaphorePermits)
    /\ [][\A c \in HCalls :
            Made(c) /\ Cardinality(Holding) = SemaphorePermits
                => FailsAtOnce(c, "TooManyRequestsError")]_vars

\* C13, amended: the same for a call whose interval validate() accepts; a
\* call whose interval it rejects fails at once with ValueError.
C13_AtMostThreeValid ==
    /\ [](Cardinality(Holding) <= SemaphorePermits)
    /\ [][\A c \in HCalls :
            Made(c) /\ Cardinality(Holding) = SemaphorePermits
                => IF validate(harg'[c].interval) = ValueError
                   THEN FailsAtOnce(c, "ValueError")
                   ELSE FailsAtOnce(c, "TooManyRequestsError")]_vars

\* Three sessions are in progress and a fourth call was turned away.
C13_Witness ==
    /\ Cardinality(Holding) = SemaphorePermits
    /\ \E c \in HCalls : hend[c] = "TooManyRequestsError" /\ hws[c] = "none"

\* C14: the free permits are the 3 minus the calls in progress, so every
\* call that has ended, whichever way, has left the count as it found it;
\* the count stays within 0..3.
C14_PermitsRestored ==
    /\ semValue \in 0..SemaphorePermits
    /\ semValue = SemaphorePermits - Cardinality(Holding)

\* All four calls have ended, by a completed fetch, a timeout, a transport
\* error and TooManyRequestsError, and three permits are free.
C14_Witness ==
    /\ semValue = SemaphorePermits
    /\ { hend[c] : c \in HCalls } = {"completed", "timeout", "error", "TooManyRequestsError"}

\* Call d went through the cache and has returned its list.
Returned(d) == hpc[d] = "returned"

\* C15: a call made less than 60 s after a call of the same key returned
\* returns that call's list at once and opens no transport.
C15_CacheHitWithinTtl ==
    [][\A c, d \in HCalls :
        (/\ Made(c) /\ Returned(d)
         /\ CacheKey(harg'[c]) = CacheKey(harg[d])
         /\ clock - hretAt[d] < CACHE_TTL)
            => /\ hpc'[c] = "returned"
               /\ hret'[c] = hret[d]
               /\ hws'[c] = "none"]_vars

EntriesOf(q) == { q[i] : i \in 1..Len(q) }

\* The entry call c stores when it ends.
StoredBy(c) == [key |-> CacheKey(harg[c]), ts |-> hnow[c], data |-> hret'[c]]

\* C16: the cache never holds more than 128 entries, and a call that stores
\* a new key into a full cache removes exactly one entry, one whose timestamp
\* no other entry (the new one included) is older than.
C16_CacheBounded ==
    /\ [](Len(cache) <= CACHE_MAXSIZE)
    /\ [][\A c \in HCalls :
            (/\ hpc[c] \in {"connecting", "closing"} /\ hpc'[c] = "returned"
             /\ Len(cache) = CACHE_MAXSIZE
             /\ ~CacheHas(cache, CacheKey(harg[c])))
                => LET all == EntriesOf(cache) \cup {StoredBy(c)}
                       gone == all \ EntriesOf(cache')
                   IN  /\ EntriesOf(cache') \subseteq all
                       /\ Cardinality(gone) = 1
                       /\ \A x \in gone : \A y \in all : x.ts <= y.ts]_vars

\* Two new keys were stored into the cache of 127 entries: it holds 128 and
\* the entry of the oldest timestamp, the third, is gone.
C16_Witness ==
    /\ Len(cache) = CACHE_MAXSIZE
    /\ \A c \in CacheCalls : CacheHas(cache, CacheKey(harg[c]))
    /\ ~CacheHas(cache, FilledCache[3].key)

(***************************************************************************)
(* Claims C17..C20: one fetch session.                                     *)
(***************************************************************************)
\* Call c has entered the read loop.
InSession(c) == hpc[c] \in {"reading", "closing", "returned"} /\ hread[c] > 0

\* C17: the read loop has ended as complete exactly when at least N distinct
\* candles are accumulated and a series_completed marker was received.
C17_CompleteIffBoth ==
    \A c \in HCalls : InSession(c) =>
        (completed[c] <=> (Len(candles[c]) >= harg[c].limit /\ hmarker[c]))

IsSuffix(r, q) == Len(r) <= Len(q) /\ r = SubSeq(q, Len(q) - Len(r) + 1, Len(q))

\* Call c has ended after its deadline fired.
TimedOut(c) == cancel_called[c] /\ hpc[c] \in {"returned", "raised"}

C19_LastNDistinct ==
    \A c \in HCalls : (hpc[c] = "returned" /\ hend[c] \in {"completed", "timeout", "eof"}) =>
        LET r == hret[c].items
        IN  /\ \A i, j \in 1..Len(r) : r[i].ts = r[j].ts => i = j
            /\ Len(r) <= harg[c].limit
            /\ IsSuffix(r, candles[c])
            /\ Len(r) = Min(harg[c].limit, Len(candles[c]))

\* C20: every create_series frame a fetch session sends carries a history
\* of at least 300.
C20_HistoryAtLeast300 ==
    \A c \in HCalls : \A i \in 1..Len(hsent[c]) :
        hsent[c][i].m = "create_series" => hsent[c][i].history >= 300


(***************************************************************************)
(* Properties of the TvWSClient reader (SpecClient).                       *)
(***************************************************************************)
\* The text recv() returned in the step.
Received == delivered'[Len(delivered')]

\* The step is a turn of the reader loop in which recv() returned a text.
Receives == delivered' # delivered

\* C21: when the transport delivers a frame that begins with ~m~ and
\* contains ~h~, the reader hands exactly that raw frame back to the
\* transport's send and puts no event on the queue consumers read.
C21_HeartbeatEchoed ==
    [][(Receives /\ IsHeartbeatRaw(Received))
          => /\ wsSent' = Append(wsSent, WsRaw(Received))
             /\ client_q' = client_q
             /\ streamed' = streamed]_vars

\* The frame ~m~4~m~~h~1 was delivered last and its echo was sent last.
C21_Witness ==
    /\ delivered # <<>>
    /\ delivered[Len(delivered)] = HeartbeatFrame
    /\ wsSent[Len(wsSent)] = WsRaw(HeartbeatFrame)
    /\ client_q = <<>>

\* The queue after the payloads of the text received in the step have been
\* handled in turn.
QueueAfterParsing ==
    HandleAll(SplitFrom(buffer \o Received, <<>>).frames, series,
              Handled(client_q, FALSE)).q

\* C22: when one transport frame carries a heartbeat envelope together with
\* data envelopes, the heartbeat is echoed and the data envelopes of that
\* frame are then parsed: the events they decode to are put on the queue.
C22_DataAfterHeartbeatParsed ==
    [][(Receives /\ IsHeartbeatRaw(Received))
          => /\ wsSent' # wsSent
             /\ client_q' = QueueAfterParsing]_vars

(***************************************************************************)
(* Properties of the framing codec (SpecCodec).                            *)
(***************************************************************************)
\* The characters of inbound delivered so far, split at once.
SplitAtOnce == SplitFrom(SubSeq(inbound, 1, Fed(chunks)), <<>>)

\* C23: feeding the reader's frame splitter a text chunk by chunk, with the
\* unconsumed remainder carried over, yields the same payloads (and leaves
\* the same remainder) as feeding it the concatenation at once; a partial
\* header or payload at a chunk boundary stays in the buffer and yields no
\* payload before it is complete.
C23_ChunkingIrrelevant ==
    /\ frames = SplitAtOnce.frames
    /\ remainder = SplitAtOnce.remainder

\* Two chunks were fed, the first one ended inside an envelope (it left a
\* remainder that the second chunk completed), and two payloads came out.
C23_Witness ==
    /\ Len(chunks) = 2
    /\ SplitFrom(chunks[1], <<>>).remainder # <<>>
    /\ Len(SplitFrom(chunks[1], <<>>).frames) = 1
    /\ Len(frames) = 2
    /\ remainder = <<>>

\* C24: for every payload p, multi-byte characters included, the splitter
\* makes of the envelope that prefixes p with its UTF-8 byte length exactly
\* the one payload p and leaves nothing in the buffer.
C24_RoundTrip ==
    (encoder = "TradingViewConnection" /\ Fed(chunks) = Len(inbound))
        => frames = <<payload_in>> /\ remainder = <<>>

(***************************************************************************)
(* Properties of the TvWSClient reader (SpecClient), continued.            *)
(***************************************************************************)
\* t is the beginning of the marker ~m~, or all of it.
MarkerPrefix(t) == Len(t) <= 3 /\ t = SubSeq(Marker, 1, Len(t))

\* More characters can still make the text begin with ~m~<digits>~m~.
HeaderPrefix(t) ==
    \/ MarkerPrefix(t)
    \/ /\ StartsWithAt(t, 1, Marker)
       /\ LET rest == SubSeq(t, 4 + DigitRun(t, 4), Len(t))
          IN  MarkerPrefix(rest) /\ (rest = <<>> \/ DigitRun(t, 4) > 0)

\* The text starts with a malformed length prefix: it does not begin with
\* ~m~<digits>~m~ and no further character can make it do so.
MalformedPrefix(t) == ~HeaderMatch(t) /\ ~HeaderPrefix(t)

\* C25: when the inbound buffer starts with a malformed length prefix, the
\* driver treats it as a protocol error and closes the connection (to
\* retry): the reader does not go on reading into that buffer.
C25_MalformedPrefixCloses ==
    MalformedPrefix(buffer) => (rx # "running" /\ ws # "open")

\* C26: when reading from the transport fails, the reader stops and the
\* engine is signalled, so that a reconnect follows or the consumers' event
\* iterators terminate: a consumer iterating stream() when recv() fails is
\* not left waiting forever.
C26_ReadFailureEndsStream ==
    (rx = "recv failed" /\ sc = "polling") ~> (sc = "ended" \/ rx = "running")

\* C27: a well-framed payload whose content is malformed or of an unexpected
\* shape is dropped: the reader thread survives every text it receives, so
\* that later frames on the same connection are still processed.
C27_ReaderSurvivesPayload ==
    [][Receives => rx' = "running"]_vars

(***************************************************************************)
(* Properties of the engine (SpecStream), continued.                       *)
(***************************************************************************)
\* The step is a turn of `async for raw in ws` that read a du frame.
ReadsDu == nread' = nread + 1 /\ rawRead'.m = "du"

\* C28: for every inbound du frame with an OHLCV vector for a subscribed
\* symbol, CandleStream publishes exactly one Candle to its hub and keeps
\* the connection open.
C28_DuPublishedOnce ==
    [][(ReadsDu /\ pairs # <<>>)
          => /\ Len(published') = Len(published) + 1
             /\ wireOpen'
             /\ runPc' = "stream"]_vars

(***************************************************************************)
(* Properties of the interval normalizer (SpecIntervals).                  *)
(***************************************************************************)
\* C29: for every input x the normalizer accepts, validate(validate(x)) =
\* validate(x): every code it returns is itself accepted and mapped to
\* itself.
C29_Idempotent ==
    renormalized # Unset => renormalized = normalized

(***************************************************************************)
(* Properties of the StreamRouter (SpecRouterFair).                        *)
(***************************************************************************)
\* C30: leaving a StreamRouter context always terminates, also while the
\* client stream is still live: __exit__ returns, and then the dispatcher
\* thread has stopped and the client is closed.
C30_ExitTerminates ==
    (router = "joining") ~> (router = "exited" /\ dispatch = "done" /\ ws = "closed")

(***************************************************************************)
(* Properties of repeated subscriptions (SpecConn).                        *)
(***************************************************************************)
\* The task is inside subscribe_candles for a (symbol, resolution) pair that
\* the connection has already registered.
Resubscribes(t) ==
    /\ arg[t].kind = "candles"
    /\ validate(arg[t].interval) # ValueError
    /\ <<Upper(arg[t].symbol), validate(arg[t].interval)>> \in candle_subs

\* The step puts a subscribe frame of the call of task t on the wire.
SendsSubscribeFrame(t) ==
    /\ Len(sent') = Len(sent) + 1
    /\ sent'[Len(sent')].call = arg[t].call
    /\ sent'[Len(sent')].m \in SubscribeMethods

\* C31: a subscribe_candles call for a (symbol, interval) pair that is already
\* registered on the connection sends no resolve_symbol, create_series or
\* quote_add_symbols frame and registers no further series.
C31_ResubscribeIdempotent ==
    [][\A t \in Tasks :
         Resubscribes(t) => /\ ~SendsSubscribeFrame(t)
                            /\ pc[t] = "c_cs" => series_ids' = series_ids]_vars

(***************************************************************************)
(* Properties of the payload handler (SpecClient).                         *)
(***************************************************************************)
\* The payloads the reader slices out of its buffer in the step.
PayloadsReceived == SplitFrom(buffer \o Received, <<>>).frames

\* A qsd message whose quote data lacks one of "lp", "volume" and "upd".
QsdIncomplete(p) ==
    LET msg == ParseJson(p)
    IN  /\ msg.m = "qsd"
        /\ ~msg.root
        /\ msg.v = "dict"
        /\ "absent" \in {msg.lp, msg.volume, msg.upd}

\* C32: a qsd message in which lp, volume or upd is absent puts no event on
\* the queue.
C32_IncompleteQsdSilent ==
    [][(/\ Receives
        /\ ~IsHeartbeatRaw(Received)
        /\ PayloadsReceived # <<>>
        /\ \A i \in 1..Len(PayloadsReceived) : QsdIncomplete(PayloadsReceived[i]))
          => client_q' = client_q]_vars

(***************************************************************************)
(* Properties of Candle.from_frame (SpecCandle).                           *)
(***************************************************************************)
\* The duration of an allowed interval code in seconds: minutes for a
\* number, a day for D and a week for W.
IntervalSeconds(code) ==
    IF IsDigit(code) THEN 60 * StrToInt(code)
    ELSE IF code = <<"D">> THEN 86400
    ELSE 604800

\* C33: for every interval code of the allowed set, from_frame builds a
\* Candle from a frame with at least five values: with a bar_close_time label
\* tsClose is the label's time, without one it is tsOpen plus the duration of
\* the interval (for M: some time after tsOpen).
C33_CloseTime ==
    (candle.status # "unset" /\ interval_in \in ALLOWED_INTERVALS /\ frame_in.vlen >= 5)
        => /\ candle.status = "built"
           /\ candle.ts_open = frame_in.ts
           /\ candle.ts_close = IF frame_in.labelled THEN frame_in.label
                                ELSE IF interval_in = <<"M">> THEN candle.ts_close
                                ELSE frame_in.ts + IntervalSeconds(interval_in)
           /\ candle.ts_close > candle.ts_open

(***************************************************************************)
(* Properties of the StreamRouter dispatcher (SpecRouter).                 *)
(***************************************************************************)
\* The step is a turn of the dispatcher loop that takes an event off the
\* client's stream.
Dispatches == dispatch = "running" /\ Len(client_q') = Len(client_q) - 1

\* The step is the dispatcher's turn for the next callback of its copy.
TurnsToCallback == dispatch = "running" /\ Len(cb_copy') = Len(cb_copy) - 1

C35_SentinelForEveryIterator ==
    dispatch = "done" =>
        \A c \in RouterConsumers :
            iter[c] = "waiting" => (cq[c] # <<>> /\ cq[c][Len(cq[c])] = Sentinel)

\* C36: once the dispose function of a callback has returned, the callback
\* is not invoked again, also when dispose runs while the dispatcher thread is
\* at work.
C36_NoCallAfterDispose ==
    [][\A b \in RouterCallbacks : b \in disposed => called'[b] = called[b]]_vars

(***************************************************************************)
(* Properties of get_history (SpecGetHistory).                             *)
(***************************************************************************)
\* The event belongs to the fetch: a bar of the requested symbol and
\* interval, or the completion of the requested series.
OfFetch(evt) ==
    /\ evt.type \in {"bar", "status"}
    /\ evt.symbol = HistorySub.symbol
    /\ evt.interval = HistorySub.interval

\* The step takes an event off self._q without handing it to the user
\* iterating stream().
TakenAside == Len(client_q') = Len(client_q) - 1 /\ streamed' = streamed

\* The step ends get_history, by return or by TimeoutError.
FetchEnds == gh = "fetching" /\ gh' # "fetching"

\* C37: get_history is isolated from the live stream: while it runs it takes
\* only the events of its own fetch off the queue, what it leaves behind when
\* it ends holds no live event either, and it ends with the queue in place
\* that was there before the call.
C37_HistoryIsolated ==
    [][/\ (gh = "fetching" /\ TakenAside) => OfFetch(Head(client_q))
       /\ FetchEnds => /\ client_q' = old_q
                       /\ \A i \in 1..Len(client_q) : OfFetch(client_q[i])]_vars

(***************************************************************************)
(* Properties of the series registry (SpecClient).                         *)
(***************************************************************************)
\* The create_series frames sent so far.
CreatedSeries == { k \in 1..Len(wsSent) : wsSent[k].m = "create_series" }

\* C38: the series ids registered on one connection are pairwise distinct,
\* and the registry maps the id of every series created to the subscription
\* it was created for.
C38_SeriesIdsDistinct ==
    /\ \A i, j \in CreatedSeries : i # j => wsSent[i].sid # wsSent[j].sid
    /\ \A k \in CreatedSeries : series[wsSent[k].sid].symbol = wsSent[k].symbol


(***************************************************************************)
(* What a failed fetch leaves in the cache (SpecCache).                    *)
(***************************************************************************)
\* The step ends the fetch of call c without completion: the deadline fired
\* or the transport raised.
FetchFails(c) ==
    /\ hpc[c] \in {"connecting", "closing"}
    /\ hpc'[c] = "returned"
    /\ hend'[c] \in {"timeout", "error"}

\* Call d went through _fetch_history and came back by timeout or error.
Failed(d) == hpc[d] = "returned" /\ hend[d] \in {"timeout", "error"}

\* C39: only a completed fetch is cached: a fetch that ended by timeout or by
\* a transport error stores nothing, and a call of the same key made less
\* than 60 s after the failed one was made opens a new session.
C39_OnlyCompletedCached ==
    [][/\ \A c \in HCalls : FetchFails(c) => cache' = cache
       /\ \A c, d \in HCalls :
            (/\ Made(c) /\ Failed(d)
             /\ CacheKey(harg'[c]) = CacheKey(harg[d])
             /\ clock - hnow[d] < CACHE_TTL)
                => hpc'[c] = "connecting"]_vars


(***************************************************************************)
(* Subscribers that register after the stream was closed (SpecStream).     *)
(***************************************************************************)
\* The iterators subscribe() returned after __aexit__ had closed the hub.
LateSubscribers == { s \in Subs : cons[s] # "none" /\ s \notin itersAtClose }

\* C40: a subscriber registered after the stream was closed observes end of
\* stream: it is never left suspended in receive(), where nothing published
\* and no second aclose() can reach it.
C40_LateSubscriberEnds ==
    streamState = "closed" => \A s \in LateSubscribers : cons[s] # "waiting"

====
